---- MODULE Spec2Model ----
(***************************************************************************)
(* A model of the AI app generator: the workspace store                     *)
(* (utils/file_utils.py), the AI command executor and the conversation      *)
(* adapter (services/gemini_service.py), the preview process manager        *)
(* (services/preview_service.py) and the handlers of app.py that call them. *)
(*                                                                          *)
(* Text (file names, file contents, messages) is a sequence of one-         *)
(* character strings, so that the string tests of the code ("in",           *)
(* startswith, endswith, slicing) are computed and not assumed.             *)
(* A JSON value decoded from the model's answer is a record [t, v]: t is    *)
(* its type ("str", "num", "null", or "absent" for a key the object does    *)
(* not have) and v its text.                                                *)
(***************************************************************************)
EXTENDS Integers, Sequences, FiniteSets, TLC

VARIABLES
    fs,               \* the file system: normalised path -> [kind, data]
    session_state,    \* st.session_state
    procs,            \* the child processes spawned so far: pid -> [status, file, port]
    client,           \* settings.GOOGLE_API_KEY is set (key) and
                      \* gemini_service._gemini_model_client is a model (model)
    last,             \* the call made by the last step: its arguments and what it returned
    calls             \* how many calls have been made so far

vars == <<fs, session_state, procs, client, last, calls>>

-----------------------------------------------------------------------------
\* F of the value of x: x is evaluated once, however often F uses it
With(x, F(_)) == CHOOSE r \in {F(v) : v \in {x}} : TRUE

-----------------------------------------------------------------------------
(* Text *)

\* str.startswith(prefix)
StartsWith(s, prefix) ==
    /\ Len(prefix) <= Len(s)
    /\ SubSeq(s, 1, Len(prefix)) = prefix

\* str.endswith(suffix)
EndsWith(s, suffix) ==
    /\ Len(suffix) <= Len(s)
    /\ SubSeq(s, Len(s) - Len(suffix) + 1, Len(s)) = suffix

\* sub in s
Contains(sub, s) ==
    \E i \in 1..(Len(s) - Len(sub) + 1) : SubSeq(s, i, i + Len(sub) - 1) = sub

DotDot == <<".", ".">>
Slash == <<"/">>
Backslash == <<"\\">>
DotPy == <<".", "p", "y">>

\* the characters used, in code point order
Alphabet == <<".", "/", "0", "5", "\\", "a", "b", "d", "p", "t", "x", "y">>

-----------------------------------------------------------------------------
(* Python values *)

JStr(s) == [t |-> "str", v |-> s]
JNum(s) == [t |-> "num", v |-> s]
None == [t |-> "null", v |-> <<>>]
True == [t |-> "bool", v |-> <<"True">>]
Absent == [t |-> "absent", v |-> <<>>]

\* bool(x): the empty string, 0 and None are false
Truthy(x) ==
    CASE x.t = "str" -> x.v # <<>>
      [] x.t = "num" -> x.v # <<"0">>
      [] x.t = "bool" -> x.v = <<"True">>
      [] x.t \in {"popen", "object"} -> TRUE
      [] OTHER -> FALSE

\* dict.get(key) without its default
Get_KeepsAbsent(x) == x

\* dict.get(key): None for a key the object does not have
Get(x) == IF x.t = "absent" THEN None ELSE x

-----------------------------------------------------------------------------
(* The file system under and around the workspace directory.  A path is the *)
(* text pathlib makes of WORKSPACE_DIR / filename, relative to the          *)
(* workspace: "a.py" is a file directly in it, "d/a.py" one in its          *)
(* subdirectory d, "../a.py" one beside the workspace and "/a.py" one at    *)
(* the root.                                                                *)

RECURSIVE Segments(_, _)
\* the segments of s between "/" characters, cur being the one in progress
Segments(s, cur) ==
    IF s = <<>> THEN <<cur>>
    ELSE IF Head(s) = "/" THEN <<cur>> \o Segments(Tail(s), <<>>)
    ELSE Segments(Tail(s), Append(cur, Head(s)))

RECURSIVE JoinSegments(_)
JoinSegments(segs) ==
    IF segs = <<>> THEN <<>>
    ELSE IF Len(segs) = 1 THEN Head(segs)
    ELSE Head(segs) \o Slash \o JoinSegments(Tail(segs))

\* workspace_dir / filename: pathlib drops empty and "." segments and a
\* trailing "/", keeps ".." segments, and an absolute filename replaces the
\* workspace path
PathJoin(filename) ==
    LET kept == SelectSeq(Segments(filename, <<>>), LAMBDA g : g # <<>> /\ g # <<".">>)
    IN  (IF StartsWith(filename, Slash) THEN Slash ELSE <<>>) \o JoinSegments(kept)

\* the directory a path is in (<<>> is the workspace directory itself)
Parent(path) ==
    LET segs == Segments(path, <<>>)
    IN  (IF StartsWith(path, Slash) THEN Slash ELSE <<>>)
            \o JoinSegments(SubSeq(segs, 1, Len(segs) - 1))

File(data) == [kind |-> "file", data |-> data]
Dir == [kind |-> "dir", data |-> <<>>]

\* Path.is_file()
IsFile(files, path) == path \in DOMAIN files /\ files[path].kind = "file"

\* Path.is_dir(); the workspace directory, its parent and the root exist
IsDir(files, path) ==
    \/ path \in {<<>>, DotDot, Slash}
    \/ path \in DOMAIN files /\ files[path].kind = "dir"

WriteNode(files, path, node) ==
    [p \in DOMAIN files \cup {path} |-> IF p = path THEN node ELSE files[p]]

RemoveNode(files, path) ==
    [p \in DOMAIN files \ {path} |-> files[p]]

-----------------------------------------------------------------------------
(* utils/file_utils.py.  Each function returns what the call returned       *)
(* (ret), whether it raised instead (raised), and the file system it        *)
(* leaves (fs).  io names the fault the operating system injects in the     *)
(* call, "ok" for none.                                                     *)

\* get_workspace_python_files: the names directly in the workspace, sorted
IsTopLevelPy(files, path) ==
    /\ IsFile(files, path)
    /\ ~Contains(Slash, path)
    /\ EndsWith(path, DotPy)
    /\ Len(path) > Len(DotPy)

RECURSIVE TextLess(_, _)
\* s < t for two texts, in the order of the code points used here
TextLess(s, t) ==
    LET ord(c) == CHOOSE i \in 1..Len(Alphabet) : Alphabet[i] = c
    IN  IF t = <<>> THEN FALSE
        ELSE IF s = <<>> THEN TRUE
        ELSE IF Head(s) # Head(t) THEN ord(Head(s)) < ord(Head(t))
        ELSE TextLess(Tail(s), Tail(t))

RECURSIVE SortedSeq(_)
SortedSeq(S) ==
    IF S = {} THEN <<>>
    ELSE LET m == CHOOSE x \in S : \A y \in S \ {x} : TextLess(x, y)
         IN  <<m>> \o SortedSeq(S \ {m})

get_workspace_python_files(files) ==
    SortedSeq({p \in DOMAIN files : IsTopLevelPy(files, p)})

\* Text-mode I/O.  open(filepath, "w", encoding="utf-8") writes each "\n" of
\* the text as the platform's line separator and every other character as it
\* is; open(filepath, "r", encoding="utf-8") reads with universal newlines:
\* "\r\n" and a lone "\r" of the file both come back as "\n".
CR == "\r"

LF == "\n"

LineSep == <<LF>>

RECURSIVE TextWrite(_)
TextWrite(text) ==
    IF text = <<>> THEN <<>>
    ELSE IF Head(text) = LF THEN LineSep \o TextWrite(Tail(text))
    ELSE <<Head(text)>> \o TextWrite(Tail(text))

RECURSIVE TextRead(_)
TextRead(data) ==
    IF data = <<>> THEN <<>>
    ELSE IF Head(data) = CR /\ Len(data) >= 2 /\ data[2] = LF
    THEN <<LF>> \o TextRead(Tail(Tail(data)))
    ELSE IF Head(data) = CR THEN <<LF>> \o TextRead(Tail(data))
    ELSE <<Head(data)>> \o TextRead(Tail(data))

\* read_file that opens a missing file for writing and returns its empty text
read_file_CreatesMissing(files, filename, io) ==
    IF ~Truthy(filename)
    THEN [ret |-> None, raised |-> FALSE, fs |-> files]
    ELSE IF filename.t # "str"
    THEN [ret |-> None, raised |-> TRUE, fs |-> files]
    ELSE IF \/ Contains(DotDot, filename.v)
            \/ StartsWith(filename.v, Slash)
            \/ StartsWith(filename.v, Backslash)
    THEN [ret |-> None, raised |-> FALSE, fs |-> files]
    ELSE LET filepath == PathJoin(filename.v)
         IN  IF IsFile(files, filepath) /\ io = "ok"
             THEN [ret |-> JStr(TextRead(files[filepath].data)), raised |-> FALSE,
                   fs |-> files]
             ELSE IF filepath \notin DOMAIN files
             THEN [ret |-> JStr(<<>>), raised |-> FALSE,
                   fs |-> WriteNode(files, filepath, File(<<>>))]
             ELSE [ret |-> None, raised |-> FALSE, fs |-> files]

read_file(files, filename, io) ==
    IF ~Truthy(filename)
    THEN [ret |-> None, raised |-> FALSE, fs |-> files]
    ELSE IF filename.t # "str"
    THEN [ret |-> None, raised |-> TRUE, fs |-> files]
    ELSE IF \/ Contains(DotDot, filename.v)
            \/ StartsWith(filename.v, Slash)
            \/ StartsWith(filename.v, Backslash)
    THEN [ret |-> None, raised |-> FALSE, fs |-> files]
    ELSE LET filepath == PathJoin(filename.v)
         IN  IF IsFile(files, filepath) /\ io = "ok"
             THEN [ret |-> JStr(TextRead(files[filepath].data)), raised |-> FALSE,
                   fs |-> files]
             ELSE [ret |-> None, raised |-> FALSE, fs |-> files]

\* save_file without its extension check
save_file_AnyExtension(files, filename, content, io) ==
    IF ~Truthy(filename)
    THEN [ret |-> FALSE, raised |-> FALSE, fs |-> files]
    ELSE IF filename.t # "str"
    THEN [ret |-> FALSE, raised |-> TRUE, fs |-> files]
    ELSE IF \/ Contains(DotDot, filename.v)
            \/ StartsWith(filename.v, Slash)
            \/ StartsWith(filename.v, Backslash)
    THEN [ret |-> FALSE, raised |-> FALSE, fs |-> files]
    ELSE LET filepath == PathJoin(filename.v)
         IN  IF \/ io = "open_error"
                \/ IsDir(files, filepath)
                \/ ~IsDir(files, Parent(filepath))
             THEN [ret |-> FALSE, raised |-> FALSE, fs |-> files]
             ELSE IF io = "write_error" \/ content.t # "str"
             THEN [ret |-> FALSE, raised |-> FALSE,
                   fs |-> WriteNode(files, filepath, File(<<>>))]
             ELSE [ret |-> TRUE, raised |-> FALSE,
                   fs |-> WriteNode(files, filepath, File(TextWrite(content.v)))]

\* save_file opening the file to append to it
save_file_Appends(files, filename, content, io) ==
    IF ~Truthy(filename)
    THEN [ret |-> FALSE, raised |-> FALSE, fs |-> files]
    ELSE IF filename.t # "str"
    THEN [ret |-> FALSE, raised |-> TRUE, fs |-> files]
    ELSE IF \/ Contains(DotDot, filename.v)
            \/ StartsWith(filename.v, Slash)
            \/ StartsWith(filename.v, Backslash)
    THEN [ret |-> FALSE, raised |-> FALSE, fs |-> files]
    ELSE IF ~EndsWith(filename.v, DotPy)
    THEN [ret |-> FALSE, raised |-> FALSE, fs |-> files]
    ELSE LET filepath == PathJoin(filename.v)
             old == IF IsFile(files, filepath) THEN files[filepath].data ELSE <<>>
         IN  IF \/ io = "open_error"
                \/ IsDir(files, filepath)
                \/ ~IsDir(files, Parent(filepath))
             THEN [ret |-> FALSE, raised |-> FALSE, fs |-> files]
             ELSE IF io = "write_error" \/ content.t # "str"
             THEN [ret |-> FALSE, raised |-> FALSE,
                   fs |-> WriteNode(files, filepath, File(old))]
             ELSE [ret |-> TRUE, raised |-> FALSE,
                   fs |-> WriteNode(files, filepath, File(old \o TextWrite(content.v)))]

save_file(files, filename, content, io) ==
    IF ~Truthy(filename)
    THEN [ret |-> FALSE, raised |-> FALSE, fs |-> files]
    ELSE IF filename.t # "str"
    THEN [ret |-> FALSE, raised |-> TRUE, fs |-> files]
    ELSE IF \/ Contains(DotDot, filename.v)
            \/ StartsWith(filename.v, Slash)
            \/ StartsWith(filename.v, Backslash)
    THEN [ret |-> FALSE, raised |-> FALSE, fs |-> files]
    ELSE IF ~EndsWith(filename.v, DotPy)
    THEN [ret |-> FALSE, raised |-> FALSE, fs |-> files]
    ELSE LET filepath == PathJoin(filename.v)
         IN  IF \/ io = "open_error"
                \/ IsDir(files, filepath)
                \/ ~IsDir(files, Parent(filepath))
             THEN [ret |-> FALSE, raised |-> FALSE, fs |-> files]
             ELSE IF io = "write_error" \/ content.t # "str"
             THEN [ret |-> FALSE, raised |-> FALSE,
                   fs |-> WriteNode(files, filepath, File(<<>>))]
             ELSE [ret |-> TRUE, raised |-> FALSE,
                   fs |-> WriteNode(files, filepath, File(TextWrite(content.v)))]

\* delete_file_from_workspace checking only the start of the name
delete_file_from_workspace_NoDotDotCheck(files, filename, io) ==
    IF ~Truthy(filename)
    THEN [ret |-> FALSE, raised |-> FALSE, fs |-> files]
    ELSE IF filename.t # "str"
    THEN [ret |-> FALSE, raised |-> TRUE, fs |-> files]
    ELSE IF \/ StartsWith(filename.v, Slash)
            \/ StartsWith(filename.v, Backslash)
    THEN [ret |-> FALSE, raised |-> FALSE, fs |-> files]
    ELSE LET filepath == PathJoin(filename.v)
         IN  IF ~IsFile(files, filepath)
             THEN [ret |-> TRUE, raised |-> FALSE, fs |-> files]
             ELSE IF io = "toast_error"
             THEN [ret |-> FALSE, raised |-> FALSE, fs |-> RemoveNode(files, filepath)]
             ELSE IF io # "ok"
             THEN [ret |-> FALSE, raised |-> FALSE, fs |-> files]
             ELSE [ret |-> TRUE, raised |-> FALSE, fs |-> RemoveNode(files, filepath)]

\* delete_file_from_workspace reporting a file that is not there as a failure
delete_file_from_workspace_AbsentFails(files, filename, io) ==
    IF ~Truthy(filename)
    THEN [ret |-> FALSE, raised |-> FALSE, fs |-> files]
    ELSE IF filename.t # "str"
    THEN [ret |-> FALSE, raised |-> TRUE, fs |-> files]
    ELSE IF \/ Contains(DotDot, filename.v)
            \/ StartsWith(filename.v, Slash)
            \/ StartsWith(filename.v, Backslash)
    THEN [ret |-> FALSE, raised |-> FALSE, fs |-> files]
    ELSE LET filepath == PathJoin(filename.v)
         IN  IF ~IsFile(files, filepath)
             THEN [ret |-> FALSE, raised |-> FALSE, fs |-> files]
             ELSE IF io = "toast_error"
             THEN [ret |-> FALSE, raised |-> FALSE, fs |-> RemoveNode(files, filepath)]
             ELSE IF io # "ok"
             THEN [ret |-> FALSE, raised |-> FALSE, fs |-> files]
             ELSE [ret |-> TRUE, raised |-> FALSE, fs |-> RemoveNode(files, filepath)]

\* io is what the environment does once the file is found: "ok", "error"
\* where os.remove raises, "toast_error" where the file is removed and the
\* st.toast after it raises inside the same try
delete_file_from_workspace(files, filename, io) ==
    IF ~Truthy(filename)
    THEN [ret |-> FALSE, raised |-> FALSE, fs |-> files]
    ELSE IF filename.t # "str"
    THEN [ret |-> FALSE, raised |-> TRUE, fs |-> files]
    ELSE IF \/ Contains(DotDot, filename.v)
            \/ StartsWith(filename.v, Slash)
            \/ StartsWith(filename.v, Backslash)
    THEN [ret |-> FALSE, raised |-> FALSE, fs |-> files]
    ELSE LET filepath == PathJoin(filename.v)
         IN  IF ~IsFile(files, filepath)
             THEN [ret |-> TRUE, raised |-> FALSE, fs |-> files]
             ELSE IF io = "toast_error"
             THEN [ret |-> FALSE, raised |-> FALSE, fs |-> RemoveNode(files, filepath)]
             ELSE IF io # "ok"
             THEN [ret |-> FALSE, raised |-> FALSE, fs |-> files]
             ELSE [ret |-> TRUE, raised |-> FALSE, fs |-> RemoveNode(files, filepath)]

-----------------------------------------------------------------------------
(* JSON text.  json.dumps writes a value as a text and json.loads reads a   *)
(* text back; a text that is no single JSON value makes json.loads raise    *)
(* JSONDecodeError.  A decoded value is a scalar [t, v], an object          *)
(* [t |-> "dict"] with its action, filename, content and status members     *)
(* (Absent for a key it does not have; other keys are not modelled), or an  *)
(* array [t |-> "list"] of items.                                           *)

Quote == "\""

Dict(action, filename, content, status) ==
    [t |-> "dict", v |-> <<>>, action |-> action, filename |-> filename,
     content |-> content, status |-> status]

List(items) == [t |-> "list", v |-> <<>>, items |-> items]

EmptyDict == Dict(Absent, Absent, Absent, Absent)

Keys == <<"action", "filename", "content", "status">>

\* d[key] = value
SetKey(d, key, value) ==
    CASE key = "action" -> [d EXCEPT !.action = value]
      [] key = "filename" -> [d EXCEPT !.filename = value]
      [] key = "content" -> [d EXCEPT !.content = value]
      [] key = "status" -> [d EXCEPT !.status = value]
      [] OTHER -> d

GetKey(d, key) ==
    CASE key = "action" -> d.action
      [] key = "filename" -> d.filename
      [] key = "content" -> d.content
      [] key = "status" -> d.status

RECURSIVE JoinItems(_)
\* the texts of items separated by ", "
JoinItems(texts) ==
    IF texts = <<>> THEN <<>>
    ELSE IF Len(texts) = 1 THEN Head(texts)
    ELSE Head(texts) \o <<",", " ">> \o JoinItems(Tail(texts))

DumpsScalar(x) ==
    CASE x.t = "str" -> <<Quote>> \o x.v \o <<Quote>>
      [] x.t = "num" -> x.v
      [] OTHER -> <<"null">>

DumpsDict(d) ==
    LET present == SelectSeq(Keys, LAMBDA k : GetKey(d, k).t # "absent")
        member(k) == <<Quote, k, Quote, ":", " ">> \o DumpsScalar(GetKey(d, k))
    IN  <<"{">> \o JoinItems([i \in 1..Len(present) |-> member(present[i])]) \o <<"}">>

DumpsItem(x) == IF x.t = "dict" THEN DumpsDict(x) ELSE DumpsScalar(x)

\* json.dumps(x)
Dumps(x) ==
    IF x.t = "list"
    THEN <<"[">> \o JoinItems([i \in 1..Len(x.items) |-> DumpsItem(x.items[i])]) \o <<"]">>
    ELSE DumpsItem(x)

Whitespace == {" ", "\n"}
Digits == {"0", "5"}

ParseError == [ok |-> FALSE, val |-> None, rest |-> <<>>]
Parsed(val, rest) == [ok |-> TRUE, val |-> val, rest |-> rest]

RECURSIVE SkipWs(_)
SkipWs(toks) ==
    IF toks # <<>> /\ Head(toks) \in Whitespace THEN SkipWs(Tail(toks)) ELSE toks

\* the position of the first quote of toks, 0 if it has none
FirstQuote(toks) ==
    IF \E i \in 1..Len(toks) : toks[i] = Quote
    THEN CHOOSE i \in 1..Len(toks) : toks[i] = Quote /\ \A j \in 1..(i - 1) : toks[j] # Quote
    ELSE 0

ParseScalar(toks0) ==
    With(SkipWs(toks0), LAMBDA toks :
        IF toks = <<>> THEN ParseError
        ELSE IF Head(toks) = Quote
        THEN With(FirstQuote(Tail(toks)), LAMBDA close :
                IF close = 0 THEN ParseError
                ELSE Parsed(JStr(SubSeq(Tail(toks), 1, close - 1)),
                            SubSeq(toks, close + 2, Len(toks))))
        ELSE IF Head(toks) = "null" THEN Parsed(None, Tail(toks))
        ELSE IF Head(toks) \in Digits THEN Parsed(JNum(<<Head(toks)>>), Tail(toks))
        ELSE ParseError)

RECURSIVE ParseMembers(_, _)
\* the members of an object after its "{" or after a ",", added to d
ParseMembers(toks0, d) ==
    With(ParseScalar(toks0), LAMBDA key :
    With(SkipWs(key.rest), LAMBDA colon :
        IF ~key.ok \/ key.val.t # "str" THEN ParseError
        ELSE IF colon = <<>> \/ Head(colon) # ":" THEN ParseError
        ELSE
    With(ParseScalar(Tail(colon)), LAMBDA value :
    With(SkipWs(value.rest), LAMBDA after :
    With(SetKey(d, IF Len(key.val.v) = 1 THEN key.val.v[1] ELSE "", value.val),
         LAMBDA d2 :
        IF ~value.ok \/ after = <<>> THEN ParseError
        ELSE IF Head(after) = "}" THEN Parsed(d2, Tail(after))
        ELSE IF Head(after) = "," THEN ParseMembers(Tail(after), d2)
        ELSE ParseError)))))

ParseItem(toks0) ==
    With(SkipWs(toks0), LAMBDA toks :
        IF toks # <<>> /\ Head(toks) = "{"
        THEN With(SkipWs(Tail(toks)), LAMBDA inner :
                IF inner # <<>> /\ Head(inner) = "}"
                THEN Parsed(EmptyDict, Tail(inner))
                ELSE ParseMembers(inner, EmptyDict))
        ELSE ParseScalar(toks))

RECURSIVE ParseItems(_, _)
\* the items of an array after its "[" or after a ",", appended to items
ParseItems(toks0, items) ==
    With(ParseItem(toks0), LAMBDA item :
    With(SkipWs(item.rest), LAMBDA after :
    With(Append(items, item.val), LAMBDA items2 :
        IF ~item.ok \/ after = <<>> THEN ParseError
        ELSE IF Head(after) = "]" THEN Parsed(List(items2), Tail(after))
        ELSE IF Head(after) = "," THEN ParseItems(Tail(after), items2)
        ELSE ParseError)))

ParseValue(toks0) ==
    With(SkipWs(toks0), LAMBDA toks :
        IF toks # <<>> /\ Head(toks) = "["
        THEN With(SkipWs(Tail(toks)), LAMBDA inner :
                IF inner # <<>> /\ Head(inner) = "]"
                THEN Parsed(List(<<>>), Tail(inner))
                ELSE ParseItems(inner, <<>>))
        ELSE ParseItem(toks))

\* json.loads reading an object as the array of that one object
Loads_ObjectAsArray(text) ==
    With(ParseValue(text), LAMBDA r :
        IF r.ok /\ SkipWs(r.rest) = <<>>
        THEN IF r.val.t = "dict" THEN Parsed(List(<<r.val>>), <<>>) ELSE r
        ELSE ParseError)

\* json.loads(text): ok is FALSE where it raises JSONDecodeError
Loads(text) ==
    With(ParseValue(text), LAMBDA r :
        IF r.ok /\ SkipWs(r.rest) = <<>> THEN r ELSE ParseError)

-----------------------------------------------------------------------------
(* Names, contents and file systems the checks draw from *)

A_py == <<"a", ".", "p", "y">>
B_py == <<"b", ".", "p", "y">>
A_txt == <<"a", ".", "t", "x", "t">>
Up_a_py == <<".", ".", "/", "a", ".", "p", "y">>
Root_a_py == <<"/", "a", ".", "p", "y">>
Bs_a_py == <<"\\", "a", ".", "p", "y">>
D == <<"d">>
D_a_py == <<"d", "/", "a", ".", "p", "y">>
D_up_a_py == <<"d", "/", ".", ".", "/", "a", ".", "p", "y">>
A_dotdot_py == <<"a", ".", ".", "p", "y">>
Dot_a_py == <<".", "/", "a", ".", "p", "y">>
X == <<"x">>
Y == <<"y">>

\* a workspace holding a.py and a.txt and a subdirectory d with its own
\* a.py, and an a.py beside the workspace and one at the root
FullFs ==
    [p \in {A_py, A_txt, D, D_a_py, Up_a_py, Root_a_py} |->
        IF p = D THEN Dir ELSE File(X)]

\* the same with no a.py in the workspace
NoAFs == RemoveNode(FullFs, A_py)

\* an empty workspace
EmptyFs == [p \in {} |-> Dir]

\* st.session_state as initialize_session_state leaves it on the first run
SessionDefaults ==
    [messages |-> <<>>,
     selected_file |-> None,
     file_content_on_load |-> <<>>,
     preview_process |-> None,
     preview_port |-> None,
     preview_url |-> None,
     preview_file |-> None,
     editor_unsaved_content |-> <<>>,
     last_saved_content |-> <<>>,
     ai_is_thinking |-> FALSE,
     \* app.py adds and deletes this key; it is not among the defaults
     confirm_delete_pending |-> Absent]

\* no API key and no model client
NoClient == [key |-> FALSE, model |-> FALSE]

NoCall == [op |-> "none"]

-----------------------------------------------------------------------------
(* services/gemini_service.py: the command executor *)

RECURSIVE Strip(_)
\* str.strip()
Strip(text) ==
    IF text # <<>> /\ Head(text) \in Whitespace THEN Strip(Tail(text))
    ELSE IF text # <<>> /\ text[Len(text)] \in Whitespace
    THEN Strip(SubSeq(text, 1, Len(text) - 1))
    ELSE text

\* the backquote character (written ^, SANY reads no backquote in a string)
Tick == "^"
Fence == <<Tick, Tick, Tick>>
FenceJson == Fence \o <<"j", "s", "o", "n">>

_clean_ai_response_text(ai_response_text) ==
    LET text == Strip(ai_response_text)
    IN  IF StartsWith(text, FenceJson) /\ EndsWith(text, Fence)
        THEN Strip(SubSeq(text, Len(FenceJson) + 1, Len(text) - Len(Fence)))
        ELSE IF StartsWith(text, Fence) /\ EndsWith(text, Fence)
        THEN Strip(SubSeq(text, Len(Fence) + 1, Len(text) - Len(Fence)))
        ELSE text

Text(s) == JStr(<<s>>)
CreateUpdate == Text("create_update")
Delete == Text("delete")
ChatAction == Text("chat")

\* {"action": "chat", "content": content}
Chat(content) == Dict(ChatAction, Absent, content, Absent)

\* str(x) as an f-string writes it
Str(x) ==
    CASE x.t \in {"str", "num"} -> x.v
      [] x.t = "dict" -> <<"{...}">>
      [] OTHER -> <<"None">>

\* the status set on an outcome that loses its content
SetLastStatus_DropsContent(executed, status) ==
    [executed EXCEPT ![Len(executed)].status = status,
                     ![Len(executed)].content = Absent]

\* executed_commands_list[-1][status] = status
SetLastStatus(executed, status) ==
    [executed EXCEPT ![Len(executed)].status = status]

\* the body of the loop handing every named create_update to save_file
ExecuteCommand_NoExtensionCheck(s, command_data, io) ==
    IF command_data.t # "dict"
    THEN [s EXCEPT !.executed =
            Append(@, Chat(JStr(<<"AI Warning: Invalid command format: ">>
                                    \o Str(command_data))))]
    ELSE
    LET executed == Append(s.executed, command_data)
        action == Get(command_data.action)
        filename == Get(command_data.filename)
        content == Get(command_data.content)
        with(status) == [s EXCEPT !.executed = SetLastStatus(executed, Text(status))]
        raise == [s EXCEPT !.executed = executed, !.aborted = TRUE]
    IN  IF action = CreateUpdate
        THEN IF Truthy(filename) /\ content # None
             THEN IF filename.t # "str" THEN raise
                  ELSE LET r == save_file(s.fs, filename, content, io)
                       IN  IF r.raised THEN raise
                           ELSE IF r.ret
                           THEN [s EXCEPT
                                   !.fs = r.fs,
                                   !.ss = IF s.ss.selected_file = filename
                                          THEN [s.ss EXCEPT
                                                  !.file_content_on_load = content.v,
                                                  !.editor_unsaved_content = content.v,
                                                  !.last_saved_content = content.v]
                                          ELSE s.ss,
                                   !.executed = SetLastStatus(executed, Text("success"))]
                           ELSE [s EXCEPT
                                   !.fs = r.fs,
                                   !.executed =
                                       SetLastStatus(executed, Text("failed: save error"))]
             ELSE with("failed: missing parameters")
        ELSE IF action = Delete
        THEN IF Truthy(filename)
             THEN LET r == delete_file_from_workspace(s.fs, filename, io)
                  IN  IF r.raised THEN raise
                      ELSE IF r.ret
                      THEN [s EXCEPT
                              !.fs = r.fs,
                              !.ss = IF s.ss.selected_file = filename
                                     THEN [s.ss EXCEPT
                                             !.selected_file = None,
                                             !.file_content_on_load = <<>>,
                                             !.editor_unsaved_content = <<>>,
                                             !.last_saved_content = <<>>]
                                     ELSE s.ss,
                              !.executed = SetLastStatus(executed, Text("success"))]
                      ELSE [s EXCEPT
                              !.fs = r.fs,
                              !.executed =
                                  SetLastStatus(executed, Text("failed: delete error"))]
             ELSE with("failed: missing filename")
        ELSE IF action = ChatAction
        THEN with("chat message")
        ELSE [s EXCEPT !.executed =
                SetLastStatus(executed,
                    JStr(<<"failed: unknown action (">> \o Str(action) \o <<")">>))]

\* the body of the loop loading every file the AI writes into the editor
ExecuteCommand_RefreshesAlways(s, command_data, io) ==
    IF command_data.t # "dict"
    THEN [s EXCEPT !.executed =
            Append(@, Chat(JStr(<<"AI Warning: Invalid command format: ">>
                                    \o Str(command_data))))]
    ELSE
    LET executed == Append(s.executed, command_data)
        action == Get(command_data.action)
        filename == Get(command_data.filename)
        content == Get(command_data.content)
        with(status) == [s EXCEPT !.executed = SetLastStatus(executed, Text(status))]
        raise == [s EXCEPT !.executed = executed, !.aborted = TRUE]
    IN  IF action = CreateUpdate
        THEN IF Truthy(filename) /\ content # None
             THEN IF filename.t # "str" THEN raise
                  ELSE IF ~EndsWith(filename.v, DotPy)
                  THEN with("failed: invalid filename")
                  ELSE LET r == save_file(s.fs, filename, content, io)
                       IN  IF r.raised THEN raise
                           ELSE IF r.ret
                           THEN [s EXCEPT
                                   !.fs = r.fs,
                                   !.ss = IF TRUE
                                          THEN [s.ss EXCEPT
                                                  !.file_content_on_load = content.v,
                                                  !.editor_unsaved_content = content.v,
                                                  !.last_saved_content = content.v]
                                          ELSE s.ss,
                                   !.executed = SetLastStatus(executed, Text("success"))]
                           ELSE [s EXCEPT
                                   !.fs = r.fs,
                                   !.executed =
                                       SetLastStatus(executed, Text("failed: save error"))]
             ELSE with("failed: missing parameters")
        ELSE IF action = Delete
        THEN IF Truthy(filename)
             THEN LET r == delete_file_from_workspace(s.fs, filename, io)
                  IN  IF r.raised THEN raise
                      ELSE IF r.ret
                      THEN [s EXCEPT
                              !.fs = r.fs,
                              !.ss = IF s.ss.selected_file = filename
                                     THEN [s.ss EXCEPT
                                             !.selected_file = None,
                                             !.file_content_on_load = <<>>,
                                             !.editor_unsaved_content = <<>>,
                                             !.last_saved_content = <<>>]
                                     ELSE s.ss,
                              !.executed = SetLastStatus(executed, Text("success"))]
                      ELSE [s EXCEPT
                              !.fs = r.fs,
                              !.executed =
                                  SetLastStatus(executed, Text("failed: delete error"))]
             ELSE with("failed: missing filename")
        ELSE IF action = ChatAction
        THEN with("chat message")
        ELSE [s EXCEPT !.executed =
                SetLastStatus(executed,
                    JStr(<<"failed: unknown action (">> \o Str(action) \o <<")">>))]

\* the body of the loop closing the editor after every delete of the AI
ExecuteCommand_ClearsAlways(s, command_data, io) ==
    IF command_data.t # "dict"
    THEN [s EXCEPT !.executed =
            Append(@, Chat(JStr(<<"AI Warning: Invalid command format: ">>
                                    \o Str(command_data))))]
    ELSE
    LET executed == Append(s.executed, command_data)
        action == Get(command_data.action)
        filename == Get(command_data.filename)
        content == Get(command_data.content)
        with(status) == [s EXCEPT !.executed = SetLastStatus(executed, Text(status))]
        raise == [s EXCEPT !.executed = executed, !.aborted = TRUE]
    IN  IF action = CreateUpdate
        THEN IF Truthy(filename) /\ content # None
             THEN IF filename.t # "str" THEN raise
                  ELSE IF ~EndsWith(filename.v, DotPy)
                  THEN with("failed: invalid filename")
                  ELSE LET r == save_file(s.fs, filename, content, io)
                       IN  IF r.raised THEN raise
                           ELSE IF r.ret
                           THEN [s EXCEPT
                                   !.fs = r.fs,
                                   !.ss = IF s.ss.selected_file = filename
                                          THEN [s.ss EXCEPT
                                                  !.file_content_on_load = content.v,
                                                  !.editor_unsaved_content = content.v,
                                                  !.last_saved_content = content.v]
                                          ELSE s.ss,
                                   !.executed = SetLastStatus(executed, Text("success"))]
                           ELSE [s EXCEPT
                                   !.fs = r.fs,
                                   !.executed =
                                       SetLastStatus(executed, Text("failed: save error"))]
             ELSE with("failed: missing parameters")
        ELSE IF action = Delete
        THEN IF Truthy(filename)
             THEN LET r == delete_file_from_workspace(s.fs, filename, io)
                  IN  IF r.raised THEN raise
                      ELSE IF r.ret
                      THEN [s EXCEPT
                              !.fs = r.fs,
                              !.ss = IF TRUE
                                     THEN [s.ss EXCEPT
                                             !.selected_file = None,
                                             !.file_content_on_load = <<>>,
                                             !.editor_unsaved_content = <<>>,
                                             !.last_saved_content = <<>>]
                                     ELSE s.ss,
                              !.executed = SetLastStatus(executed, Text("success"))]
                      ELSE [s EXCEPT
                              !.fs = r.fs,
                              !.executed =
                                  SetLastStatus(executed, Text("failed: delete error"))]
             ELSE with("failed: missing filename")
        ELSE IF action = ChatAction
        THEN with("chat message")
        ELSE [s EXCEPT !.executed =
                SetLastStatus(executed,
                    JStr(<<"failed: unknown action (">> \o Str(action) \o <<")">>))]

\* the body of the loop for one element of the array; s holds the file
\* system, the session state, executed_commands_list and whether an
\* exception has left the loop
ExecuteCommand(s, command_data, io) ==
    IF command_data.t # "dict"
    THEN [s EXCEPT !.executed =
            Append(@, Chat(JStr(<<"AI Warning: Invalid command format: ">>
                                    \o Str(command_data))))]
    ELSE
    LET executed == Append(s.executed, command_data)
        action == Get(command_data.action)
        filename == Get(command_data.filename)
        content == Get(command_data.content)
        with(status) == [s EXCEPT !.executed = SetLastStatus(executed, Text(status))]
        raise == [s EXCEPT !.executed = executed, !.aborted = TRUE]
    IN  IF action = CreateUpdate
        THEN IF Truthy(filename) /\ content # None
             THEN IF filename.t # "str" THEN raise
                  ELSE IF ~EndsWith(filename.v, DotPy)
                  THEN with("failed: invalid filename")
                  ELSE LET r == save_file(s.fs, filename, content, io)
                       IN  IF r.raised THEN raise
                           ELSE IF r.ret
                           THEN [s EXCEPT
                                   !.fs = r.fs,
                                   !.ss = IF s.ss.selected_file = filename
                                          THEN [s.ss EXCEPT
                                                  !.file_content_on_load = content.v,
                                                  !.editor_unsaved_content = content.v,
                                                  !.last_saved_content = content.v]
                                          ELSE s.ss,
                                   !.executed = SetLastStatus(executed, Text("success"))]
                           ELSE [s EXCEPT
                                   !.fs = r.fs,
                                   !.executed =
                                       SetLastStatus(executed, Text("failed: save error"))]
             ELSE with("failed: missing parameters")
        ELSE IF action = Delete
        THEN IF Truthy(filename)
             THEN LET r == delete_file_from_workspace(s.fs, filename, io)
                  IN  IF r.raised THEN raise
                      ELSE IF r.ret
                      THEN [s EXCEPT
                              !.fs = r.fs,
                              !.ss = IF s.ss.selected_file = filename
                                     THEN [s.ss EXCEPT
                                             !.selected_file = None,
                                             !.file_content_on_load = <<>>,
                                             !.editor_unsaved_content = <<>>,
                                             !.last_saved_content = <<>>]
                                     ELSE s.ss,
                              !.executed = SetLastStatus(executed, Text("success"))]
                      ELSE [s EXCEPT
                              !.fs = r.fs,
                              !.executed =
                                  SetLastStatus(executed, Text("failed: delete error"))]
             ELSE with("failed: missing filename")
        ELSE IF action = ChatAction
        THEN with("chat message")
        ELSE [s EXCEPT !.executed =
                SetLastStatus(executed,
                    JStr(<<"failed: unknown action (">> \o Str(action) \o <<")">>))]

RECURSIVE ExecuteCommands_Reversed(_, _, _, _)
\* the loop taking the elements from the last to the first
ExecuteCommands_Reversed(s, commands, ios, i) ==
    IF i > Len(commands) \/ s.aborted THEN s
    ELSE With(ExecuteCommand(s, commands[Len(commands) + 1 - i],
                             ios[Len(commands) + 1 - i]),
              LAMBDA s2 : ExecuteCommands_Reversed(s2, commands, ios, i + 1))

RECURSIVE ExecuteCommands(_, _, _, _)
\* for command_data in commands, from element i on; an exception ends the loop
ExecuteCommands(s, commands, ios, i) ==
    IF i > Len(commands) \/ s.aborted THEN s
    ELSE With(ExecuteCommand(s, commands[i], ios[i]),
              LAMBDA s2 : ExecuteCommands(s2, commands, ios, i + 1))

\* what the call returns (ret), the file system and session state it
\* leaves, and its executed_commands_list when it ended (executed)
parse_and_execute_ai_commands(files, ss, ai_response_text, ios) ==
    LET start == [fs |-> files, ss |-> ss, executed |-> <<>>, aborted |-> FALSE]
        done(ret) == [ret |-> ret, fs |-> files, ss |-> ss, executed |-> <<>>,
                      aborted |-> FALSE]
    IN  With(_clean_ai_response_text(ai_response_text), LAMBDA cleaned_text :
        With(Loads(cleaned_text), LAMBDA commands :
            IF ~commands.ok
            THEN done(<<Chat(JStr(<<"AI Error: Invalid JSON received. Response: ">>
                                    \o ai_response_text))>>)
            ELSE IF commands.val.t # "list"
            THEN done(<<Chat(Text("AI Error: Response was not a list of commands."))>>)
            ELSE With(ExecuteCommands(start, commands.val.items, ios, 1), LAMBDA s :
                    [ret |-> IF s.aborted
                             THEN <<Chat(Text("Critical Error: Could not process AI commands due to: error"))>>
                             ELSE s.executed,
                     fs |-> s.fs, ss |-> s.ss, executed |-> s.executed,
                     aborted |-> s.aborted])))

-----------------------------------------------------------------------------
(* The workspace store called directly, with any file name *)

StoreNames ==
    {JStr(n) : n \in {A_py, B_py, A_txt, Up_a_py, Root_a_py, Bs_a_py, D, D_a_py,
                      D_up_a_py, A_dotdot_py, Dot_a_py, <<>>}}
        \cup {None, JNum(<<"5">>)}

\* two lines ended the way a text written on Windows ends them
CrLfText == <<"x", CR, LF, "y">>

StoreContents == {JStr(Y), JStr(<<>>), JStr(CrLfText)}

\* the number of calls made on the store in one run
MaxStoreCalls == 2

StoreInit ==
    /\ fs \in {FullFs, NoAFs}
    /\ session_state = SessionDefaults
    /\ procs = <<>>
    /\ client = NoClient
    /\ last = NoCall
    /\ calls = 0

CallSaveFile ==
    /\ calls < MaxStoreCalls
    /\ \E filename \in StoreNames, content \in StoreContents,
       io \in {"ok", "open_error", "write_error"} :
        \E r \in {save_file(fs, filename, content, io)} :
            /\ calls' = calls + 1
            /\ fs' = r.fs
            /\ last' = [op |-> "save_file", filename |-> filename, content |-> content,
                        io |-> io, before |-> fs, ret |-> r.ret, raised |-> r.raised]
            /\ UNCHANGED <<session_state, procs, client>>

CallReadFile ==
    /\ calls < MaxStoreCalls
    /\ \E filename \in StoreNames, io \in {"ok", "error"} :
        \E r \in {read_file(fs, filename, io)} :
            /\ calls' = calls + 1
            /\ fs' = r.fs
            /\ last' = [op |-> "read_file", filename |-> filename, content |-> None,
                        io |-> io, before |-> fs, ret |-> r.ret, raised |-> r.raised]
            /\ UNCHANGED <<session_state, procs, client>>

CallDeleteFile ==
    /\ calls < MaxStoreCalls
    /\ \E filename \in StoreNames, io \in {"ok", "error", "toast_error"} :
        \E r \in {delete_file_from_workspace(fs, filename, io)} :
            /\ calls' = calls + 1
            /\ fs' = r.fs
            /\ last' = [op |-> "delete_file_from_workspace", filename |-> filename,
                        content |-> None, io |-> io, before |-> fs, ret |-> r.ret,
                        raised |-> r.raised]
            /\ UNCHANGED <<session_state, procs, client>>

\* save_file and then read_file of the same name, as test_01 calls them
SaveThenRead ==
    /\ calls < MaxStoreCalls
    /\ \E filename \in StoreNames, content \in StoreContents,
          io \in {"ok", "open_error", "write_error"}, read_io \in {"ok", "error"} :
        \E s \in {save_file(fs, filename, content, io)} :
            \E r \in {IF s.raised THEN s ELSE read_file(s.fs, filename, read_io)} :
                /\ calls' = calls + 1
                /\ fs' = r.fs
                /\ last' = [op |-> "save_then_read", filename |-> filename,
                            content |-> content, io |-> io, before |-> fs,
                            saved |-> s.ret, ret |-> r.ret, raised |-> r.raised]
                /\ UNCHANGED <<session_state, procs, client>>

\* delete_file_from_workspace called twice in a row with the same name
DeleteTwice ==
    /\ calls < MaxStoreCalls
    /\ \E filename \in StoreNames, io \in {"ok", "error"}, second_io \in {"ok", "error"} :
        \E d \in {delete_file_from_workspace(fs, filename, io)} :
            \E r \in {IF d.raised THEN d
                       ELSE delete_file_from_workspace(d.fs, filename, second_io)} :
                /\ calls' = calls + 1
                /\ fs' = r.fs
                /\ last' = [op |-> "delete_twice", filename |-> filename,
                            content |-> None, io |-> io, before |-> fs,
                            between |-> d.fs, first |-> d.ret, ret |-> r.ret,
                            raised |-> r.raised]
                /\ UNCHANGED <<session_state, procs, client>>

StoreNext ==
    CallSaveFile \/ CallReadFile \/ CallDeleteFile \/ SaveThenRead \/ DeleteTwice

SpecStore == StoreInit /\ [][StoreNext]_vars

StoreCall == last.op \in {"save_file", "read_file", "delete_file_from_workspace"}

\* the last call was given a text as its file name
TextName == StoreCall /\ last.filename.t = "str"

\* the name has a ".." in it or begins with "/" or "\"
EscapingName(name) ==
    \/ Contains(DotDot, name)
    \/ StartsWith(name, Slash)
    \/ StartsWith(name, Backslash)

\* what the call's failure value is: False for save and delete, None for read
Failed ==
    /\ ~last.raised
    /\ IF last.op = "read_file" THEN last.ret = None ELSE last.ret = FALSE

\* C9: a file name with a ".." in it or a leading "/" or "\" makes save_file,
\* read_file and delete_file_from_workspace fail (False, None, False) and
\* leaves every file in and outside the workspace as it was.
C9_EscapingNameFails ==
    (TextName /\ EscapingName(last.filename.v)) => (Failed /\ fs = last.before)

\* each of the three operations has been refused a name that escapes the
\* workspace while the file it would have reached exists
C9_Witness ==
    /\ TextName
    /\ last.op = "delete_file_from_workspace"
    /\ last.filename.v = Up_a_py
    /\ last.io = "ok"
    /\ IsFile(fs, Up_a_py)
    /\ last.ret = FALSE

\* C10: save_file fails for every name that does not end with ".py" and
\* changes no file; read_file and delete_file_from_workspace check no
\* extension: on an existing file of any extension read returns its content
\* and delete removes it.
C10_ExtensionOnlyOnSave ==
    /\ (TextName /\ last.op = "save_file" /\ ~EndsWith(last.filename.v, DotPy))
            => (Failed /\ fs = last.before)
    /\ (/\ TextName
        /\ last.op # "save_file"
        /\ ~EscapingName(last.filename.v)
        /\ IsFile(last.before, PathJoin(last.filename.v))
        /\ last.io = "ok")
            => /\ ~last.raised
               /\ IF last.op = "read_file"
                  THEN /\ last.ret = JStr(TextRead(last.before[PathJoin(last.filename.v)].data))
                       /\ fs = last.before
                  ELSE /\ last.ret = TRUE
                       /\ fs = RemoveNode(last.before, PathJoin(last.filename.v))

\* a.txt has been deleted through delete_file_from_workspace
C10_Witness ==
    /\ TextName
    /\ last.op = "delete_file_from_workspace"
    /\ last.filename.v = A_txt
    /\ IsFile(last.before, A_txt)
    /\ ~IsFile(fs, A_txt)
    /\ last.ret = TRUE

\* C11: when save_file(f, c) and the read_file(f) after it both succeed, the
\* read returns exactly the text c that was saved.
C11_ReadReturnsWhatWasSaved ==
    (last.op = "save_then_read" /\ last.saved = TRUE /\ last.ret # None)
        => last.ret = last.content

\* the last call named a file directly inside the workspace by a text that
\* the store accepts
ValidName(name) ==
    /\ name.t = "str"
    /\ name.v # <<>>
    /\ ~EscapingName(name.v)

\* C12: delete_file_from_workspace of a valid name returns True when the file
\* does not exist and changes nothing; after a delete that returned True the
\* file does not exist; a second delete right after a successful one returns
\* True too and changes nothing.
C12_DeleteIsIdempotent ==
    /\ (/\ last.op = "delete_file_from_workspace"
        /\ ValidName(last.filename)
        /\ ~IsFile(last.before, PathJoin(last.filename.v)))
            => (last.ret = TRUE /\ ~last.raised /\ fs = last.before)
    /\ (/\ last.op = "delete_file_from_workspace"
        /\ ValidName(last.filename)
        /\ last.ret = TRUE)
            => ~IsFile(fs, PathJoin(last.filename.v))
    /\ (/\ last.op = "delete_twice"
        /\ ValidName(last.filename)
        /\ last.first = TRUE)
            => /\ last.ret = TRUE
               /\ ~last.raised
               /\ fs = last.between
               /\ ~IsFile(fs, PathJoin(last.filename.v))

\* a.py existed, the first delete removed it and the second delete, even with
\* the operating system refusing removals, returned True
C12_Witness ==
    /\ last.op = "delete_twice"
    /\ last.filename = JStr(A_py)
    /\ IsFile(last.before, A_py)
    /\ ~IsFile(last.between, A_py)
    /\ last.first = TRUE
    /\ last.ret = TRUE
    /\ fs = last.between

\* the node at path is not what it was before the last call
Changed(path) ==
    IF path \in DOMAIN last.before /\ path \in DOMAIN fs
    THEN last.before[path] # fs[path]
    ELSE path \in DOMAIN last.before \cup DOMAIN fs

\* C14: save_file and delete_file_from_workspace change at most the one
\* regular file of the given name directly in the workspace directory: no
\* file inside a subdirectory is ever written or deleted.
C14_OnlyTopLevelFileChanges ==
    last.op \in {"save_file", "delete_file_from_workspace"} =>
        \A path \in DOMAIN last.before \cup DOMAIN fs :
            Changed(path) => ~Contains(Slash, path)

-----------------------------------------------------------------------------
(* The executor given the text of one array of commands *)

\* the session state with name open in the editor and data loaded
Editing(name, data) ==
    [SessionDefaults EXCEPT
        !.selected_file = JStr(name),
        !.file_content_on_load = data,
        !.editor_unsaved_content = data,
        !.last_saved_content = data]

Five == JNum(<<"5">>)

ExecItems ==
    {Dict(CreateUpdate, JStr(A_py), JStr(X), Absent),
     Dict(CreateUpdate, JStr(A_py), JStr(<<>>), Absent),
     Dict(CreateUpdate, JStr(A_py), Absent, Absent),
     Dict(CreateUpdate, JStr(A_py), Five, Absent),
     Dict(CreateUpdate, JStr(B_py), JStr(Y), Absent),
     Dict(CreateUpdate, JStr(Dot_a_py), JStr(Y), Absent),
     Dict(CreateUpdate, JStr(A_txt), JStr(X), Absent),
     Dict(CreateUpdate, Five, JStr(X), Absent),
     Dict(Delete, JStr(A_py), Absent, Absent),
     Dict(Delete, JStr(Up_a_py), Absent, Absent),
     Dict(Delete, Absent, Absent, Absent),
     Dict(Delete, Five, Absent, Absent),
     Dict(ChatAction, JStr(A_py), Text("hi"), Absent),
     Dict(Text("frobnicate"), JStr(A_py), Absent, Absent),
     Text("hi")}

\* the longest array of commands
MaxBatchLen == 2

Batches == UNION {[1..n -> ExecItems] : n \in 0..MaxBatchLen}

\* at most one store call of the batch meets a fault of the operating system
Faults(n) ==
    {[at |-> 0, io |-> "ok"]}
        \cup {[at |-> i, io |-> k] : i \in 1..n, k \in {"open_error", "write_error"}}

Ios(fault, n) == [i \in 1..n |-> IF i = fault.at THEN fault.io ELSE "ok"]

ExecInit ==
    /\ fs \in {FullFs, NoAFs}
    /\ session_state \in {SessionDefaults}
            \cup (IF IsFile(fs, A_py) THEN {Editing(A_py, X)} ELSE {})
    /\ procs = <<>>
    /\ client = NoClient
    /\ last = NoCall
    /\ calls = 0

\* parse_and_execute_ai_commands(json.dumps(items)) for an array of batches,
\* while fewer than max calls have been made
RunBatchOf(batches, max) ==
    /\ calls < max
    /\ \E items \in batches :
        \E fault \in Faults(Len(items)) :
            LET text == Dumps(List(items))
                ios == Ios(fault, Len(items))
            IN  \E r \in {parse_and_execute_ai_commands(fs, session_state, text, ios)} :
                /\ calls' = calls + 1
                /\ fs' = r.fs
                /\ session_state' = r.ss
                /\ last' = [op |-> "parse_and_execute_ai_commands", text |-> text,
                            commands |-> items, ios |-> ios, before |-> fs,
                            before_ss |-> session_state, ret |-> r.ret,
                            executed |-> r.executed, aborted |-> r.aborted]
                /\ UNCHANGED <<procs, client>>

RunBatch == RunBatchOf(Batches, 1)

ExecNext == RunBatch

SpecExec == ExecInit /\ [][ExecNext]_vars

ExecCall == last.op = "parse_and_execute_ai_commands"

\* command c is a create_update or a delete of the file at path
NamesFile(c, path) ==
    /\ c.t = "dict"
    /\ Get(c.action) \in {CreateUpdate, Delete}
    /\ Get(c.filename).t = "str"
    /\ PathJoin(Get(c.filename).v) = path

\* the position of the last command of the array that names path, 0 for none
LastNaming(commands, path) ==
    IF \E i \in 1..Len(commands) : NamesFile(commands[i], path)
    THEN CHOOSE i \in 1..Len(commands) :
            /\ NamesFile(commands[i], path)
            /\ \A j \in (i + 1)..Len(commands) : ~NamesFile(commands[j], path)
    ELSE 0

\* the file at path is as command c asks: holding its content, or absent
AsCommanded(c, path) ==
    IF Get(c.action) = CreateUpdate
    THEN /\ Get(c.content).t = "str"
         /\ IsFile(fs, path)
         /\ fs[path].data = Get(c.content).v
    ELSE ~IsFile(fs, path)

NamedPaths == {A_py, B_py, A_txt, Up_a_py}

NoFault == \A i \in 1..Len(last.ios) : last.ios[i] = "ok"

DeleteA == Dict(Delete, JStr(A_py), Absent, Absent)
CreateAX == Dict(CreateUpdate, JStr(A_py), JStr(X), Absent)

\* the two batches of the ordering example end as the claim says
OrderingExamples ==
    /\ (last.commands = <<DeleteA, CreateAX>> /\ IsFile(last.before, A_py) /\ NoFault)
            => (IsFile(fs, A_py) /\ fs[A_py].data = X)
    /\ (last.commands = <<CreateAX, DeleteA>> /\ NoFault) => ~IsFile(fs, A_py)

\* C1 as stated: the commands are applied in array order, and the final
\* state of each file is the one asked for by the last command of the array
\* that names it.
C1_LastCommandWins ==
    ExecCall =>
        /\ OrderingExamples
        /\ \A path \in NamedPaths :
            LET i == LastNaming(last.commands, path)
            IN  i > 0 => AsCommanded(last.commands[i], path)

\* C1 amended: the commands are applied in array order, and the final state
\* of each file is the one asked for by the last command of the array that
\* names it whenever the outcome of that command is success.
C1_LastSuccessfulCommandWins ==
    ExecCall =>
        /\ OrderingExamples
        /\ \A path \in NamedPaths :
            LET i == LastNaming(last.commands, path)
            IN  (/\ i > 0
                 /\ i <= Len(last.ret)
                 /\ last.ret[i].status = Text("success"))
                    => AsCommanded(last.commands[i], path)

\* a.py existed, was deleted by the first command and created again with x
\* by the second
C1_Witness ==
    /\ ExecCall
    /\ last.commands = <<DeleteA, CreateAX>>
    /\ IsFile(last.before, A_py)
    /\ last.ret[1].status = Text("success")
    /\ last.ret[2].status = Text("success")
    /\ fs[A_py].data = X

\* C2: one malformed command never aborts the batch: every element of the
\* decoded array has its outcome in the returned list, at its position, an
\* object with a status, so that every later command has been executed too.
C2_NoCommandAbortsTheBatch ==
    ExecCall =>
        /\ Len(last.ret) = Len(last.commands)
        /\ \A i \in 1..Len(last.commands) :
            last.commands[i].t = "dict" =>
                /\ last.ret[i].action = last.commands[i].action
                /\ last.ret[i].filename = last.commands[i].filename
                /\ last.ret[i].status.t = "str"

\* C16: the returned list has one outcome per element of the array, in array
\* order; the outcome of an object keeps the command's action, filename and
\* content and has a status; and whenever the batch changed a file, the
\* outcome of a command that succeeded is in the returned list.
C16_OneOutcomePerElement ==
    ExecCall =>
        /\ Len(last.ret) = Len(last.commands)
        /\ \A i \in 1..Len(last.commands) :
            last.commands[i].t = "dict" =>
                /\ last.ret[i].action = last.commands[i].action
                /\ last.ret[i].filename = last.commands[i].filename
                /\ last.ret[i].content = last.commands[i].content
                /\ last.ret[i].status.t = "str"
        /\ (NoFault /\ fs # last.before) =>
                \E i \in 1..Len(last.ret) :
                    last.ret[i].status \in {Text("success"), Text("failed: save error")}

-----------------------------------------------------------------------------
(* services/preview_service.py.  procs[pid] is the child process start_preview *)
(* spawned as pid: whether it is alive or has exited, the file it runs and  *)
(* the port it serves.                                                      *)

\* a subprocess.Popen handle, and a handle that has no pid attribute
Popen(pid) == [t |-> "popen", v |-> <<pid>>]
NoPidHandle == [t |-> "object", v |-> <<>>]

PyInt(n) == [t |-> "int", v |-> <<n>>]

Alive(ps) == {p \in DOMAIN ps : ps[p].status = "alive"}

\* the four preview fields of the session state
PreviewFields(ss) ==
    <<ss.preview_process, ss.preview_port, ss.preview_url, ss.preview_file>>

NoPreview == <<None, None, None, None>>

StartPort == 8502
MaxAttempts == 100

\* the loop of _find_available_port from attempt i on: bind fails on a port
\* in use
RECURSIVE ProbeFrom(_, _)
ProbeFrom(i, busy) ==
    IF i >= MaxAttempts THEN None
    ELSE IF StartPort + i \notin busy THEN PyInt(StartPort + i)
    ELSE ProbeFrom(i + 1, busy)

\* _find_available_port that returns the last port it could bind
_find_available_port_Highest(busy) ==
    LET free == {i \in 0..(MaxAttempts - 1) : StartPort + i \notin busy}
    IN  IF free = {} THEN None
        ELSE PyInt(StartPort + (CHOOSE i \in free : \A j \in free : i >= j))

\* the first port from start_port on that is not in use, None after
\* max_attempts ports in use
_find_available_port(busy) == ProbeFrom(0, busy)

\* the ports in use: those of the children alive and those of other programs
BusyPorts(ps, others) == others \cup {ps[p].port : p \in Alive(ps)}

\* how a child that is alive and the operating system answer stop_preview:
\* the child exits within the wait after terminate(); it exits between the
\* timeout of that wait and the second poll(); it exits within the wait
\* after kill(); it has not exited when that wait times out; it exits
\* between the first poll() and terminate(), which raises
\* ProcessLookupError; terminate() raises another exception and the child
\* lives on
StopWays ==
    {"exits_on_terminate", "exits_before_kill", "exits_on_kill", "kill_wait_timeout",
     "lookup_error", "signal_error"}

\* stop_preview that leaves the state as it is when signalling raised
stop_preview_KeepsStateOnError(ss, ps, way) ==
    LET process_to_stop == ss.preview_process
        pid == IF process_to_stop.t = "popen" THEN process_to_stop.v[1] ELSE 0
        cleared == [ss EXCEPT !.preview_process = None, !.preview_port = None,
                              !.preview_url = None, !.preview_file = None]
        exited == [ps EXCEPT ![pid].status = "exited"]
    IN  IF process_to_stop # None /\ pid # 0
        THEN IF ps[pid].status = "alive"
             THEN CASE way \in {"exits_on_terminate", "exits_before_kill",
                                "exits_on_kill", "lookup_error"} ->
                            [ss |-> cleared, procs |-> exited, path |-> way]
                    [] OTHER -> [ss |-> ss, procs |-> ps, path |-> way]
             ELSE [ss |-> cleared, procs |-> ps, path |-> "already_stopped"]
        ELSE IF process_to_stop # None
        THEN [ss |-> cleared, procs |-> ps, path |-> "no_pid"]
        ELSE [ss |-> cleared, procs |-> ps, path |-> "no_process"]

\* stop_preview that, finding no handle, kills every child still alive
stop_preview_KillsStrays(ss, ps, way) ==
    LET process_to_stop == ss.preview_process
        pid == IF process_to_stop.t = "popen" THEN process_to_stop.v[1] ELSE 0
        cleared == [ss EXCEPT !.preview_process = None, !.preview_port = None,
                              !.preview_url = None, !.preview_file = None]
        exited == [ps EXCEPT ![pid].status = "exited"]
    IN  IF process_to_stop # None /\ pid # 0
        THEN IF ps[pid].status = "alive"
             THEN CASE way \in {"exits_on_terminate", "exits_before_kill",
                                "exits_on_kill", "lookup_error"} ->
                            [ss |-> cleared, procs |-> exited, path |-> way]
                    [] OTHER -> [ss |-> cleared, procs |-> ps, path |-> way]
             ELSE [ss |-> cleared, procs |-> ps, path |-> "already_stopped"]
        ELSE IF process_to_stop # None
        THEN [ss |-> cleared, procs |-> ps, path |-> "no_pid"]
        ELSE [ss |-> cleared,
              procs |-> [p \in DOMAIN ps |-> [ps[p] EXCEPT !.status = "exited"]],
              path |-> "no_process"]

\* the session state and the processes stop_preview leaves, and the path it
\* took
stop_preview(ss, ps, way) ==
    LET process_to_stop == ss.preview_process
        pid == IF process_to_stop.t = "popen" THEN process_to_stop.v[1] ELSE 0
        cleared == [ss EXCEPT !.preview_process = None, !.preview_port = None,
                              !.preview_url = None, !.preview_file = None]
        exited == [ps EXCEPT ![pid].status = "exited"]
    IN  IF process_to_stop # None /\ pid # 0
        THEN IF ps[pid].status = "alive"
             THEN CASE way \in {"exits_on_terminate", "exits_before_kill",
                                "exits_on_kill", "lookup_error"} ->
                            [ss |-> cleared, procs |-> exited, path |-> way]
                    [] OTHER -> [ss |-> cleared, procs |-> ps, path |-> way]
             ELSE [ss |-> cleared, procs |-> ps, path |-> "already_stopped"]
        ELSE IF process_to_stop # None
        THEN [ss |-> cleared, procs |-> ps, path |-> "no_pid"]
        ELSE [ss |-> cleared, procs |-> ps, path |-> "no_process"]

\* Path.suffix == '.py': the last segment ends with ".py" and is longer
HasPySuffix(path) ==
    LET segs == Segments(path, <<>>)
        name == segs[Len(segs)]
    IN  EndsWith(name, DotPy) /\ Len(name) > Len(DotPy)

\* start_preview that records the child without polling it
start_preview_NoProbe(files, ss, ps, python_filename, way, others, launch) ==
    LET filepath == PathJoin(python_filename)
        out(ret, ss2, ps2, path, st) ==
            [ret |-> ret, ss |-> ss2, procs |-> ps2, path |-> path,
             stop |-> st.path, after_stop |-> PreviewFields(st.ss)]
    IN  IF ~IsFile(files, filepath) \/ ~HasPySuffix(filepath)
        THEN out(FALSE, ss, ps, "invalid_file", [path |-> "none", ss |-> ss])
        ELSE
        With(IF ss.preview_process # None THEN stop_preview(ss, ps, way)
             ELSE [ss |-> ss, procs |-> ps, path |-> "none"], LAMBDA st :
        With(_find_available_port(BusyPorts(st.procs, others)), LAMBDA port :
            IF port = None
            THEN out(FALSE, st.ss, st.procs, "no_port", st)
            ELSE IF launch = "popen_error"
            THEN out(FALSE, [st.ss EXCEPT !.preview_process = None], st.procs,
                     "popen_error", st)
            ELSE IF launch = "exited"
            THEN out(TRUE,
                     [st.ss EXCEPT
                        !.preview_process = Popen(Len(st.procs) + 1),
                        !.preview_port = port,
                        !.preview_url = JStr(<<"http://localhost:", ToString(port.v[1])>>),
                        !.preview_file = JStr(python_filename)],
                     Append(st.procs, [status |-> "exited", file |-> python_filename,
                                       port |-> port.v[1]]),
                     "exited_early", st)
            ELSE IF launch = "toast_error"
            THEN out(FALSE,
                     [st.ss EXCEPT
                        !.preview_process = None,
                        !.preview_port = port,
                        !.preview_url = JStr(<<"http://localhost:", ToString(port.v[1])>>),
                        !.preview_file = JStr(python_filename)],
                     Append(st.procs, [status |-> "alive", file |-> python_filename,
                                       port |-> port.v[1]]),
                     "toast_error", st)
            ELSE out(TRUE,
                     [st.ss EXCEPT
                        !.preview_process = Popen(Len(st.procs) + 1),
                        !.preview_port = port,
                        !.preview_url = JStr(<<"http://localhost:", ToString(port.v[1])>>),
                        !.preview_file = JStr(python_filename)],
                     Append(st.procs, [status |-> "alive", file |-> python_filename,
                                       port |-> port.v[1]]),
                     "started", st)))

\* what start_preview returns (ret), the session state and the processes it
\* leaves, the path it took, and the path of the stop_preview it called
\* ("none" when it called none) with the preview fields that call left.
\* way is how a prior child answers stop_preview, others the ports other
\* programs use, launch what becomes of the new child: Popen raises
\* ("popen_error"), or the child has exited ("exited") or is alive
\* ("alive") when polled after the startup wait, or it is alive and, the
\* four fields assigned, st.success or st.toast raises ("toast_error": the
\* icon of the toast is not an emoji), which the handler of line 182
\* answers by setting preview_process alone to None.
start_preview(files, ss, ps, python_filename, way, others, launch) ==
    LET filepath == PathJoin(python_filename)
        out(ret, ss2, ps2, path, st) ==
            [ret |-> ret, ss |-> ss2, procs |-> ps2, path |-> path,
             stop |-> st.path, after_stop |-> PreviewFields(st.ss)]
    IN  IF ~IsFile(files, filepath) \/ ~HasPySuffix(filepath)
        THEN out(FALSE, ss, ps, "invalid_file", [path |-> "none", ss |-> ss])
        ELSE
        With(IF ss.preview_process # None THEN stop_preview(ss, ps, way)
             ELSE [ss |-> ss, procs |-> ps, path |-> "none"], LAMBDA st :
        With(_find_available_port(BusyPorts(st.procs, others)), LAMBDA port :
            IF port = None
            THEN out(FALSE, st.ss, st.procs, "no_port", st)
            ELSE IF launch = "popen_error"
            THEN out(FALSE, [st.ss EXCEPT !.preview_process = None], st.procs,
                     "popen_error", st)
            ELSE IF launch = "exited"
            THEN out(FALSE, [st.ss EXCEPT !.preview_process = None],
                     Append(st.procs, [status |-> "exited", file |-> python_filename,
                                       port |-> port.v[1]]),
                     "exited_early", st)
            ELSE IF launch = "toast_error"
            THEN out(FALSE,
                     [st.ss EXCEPT
                        !.preview_process = None,
                        !.preview_port = port,
                        !.preview_url = JStr(<<"http://localhost:", ToString(port.v[1])>>),
                        !.preview_file = JStr(python_filename)],
                     Append(st.procs, [status |-> "alive", file |-> python_filename,
                                       port |-> port.v[1]]),
                     "toast_error", st)
            ELSE out(TRUE,
                     [st.ss EXCEPT
                        !.preview_process = Popen(Len(st.procs) + 1),
                        !.preview_port = port,
                        !.preview_url = JStr(<<"http://localhost:", ToString(port.v[1])>>),
                        !.preview_file = JStr(python_filename)],
                     Append(st.procs, [status |-> "alive", file |-> python_filename,
                                       port |-> port.v[1]]),
                     "started", st)))

-----------------------------------------------------------------------------
(* The preview manager, the executor and the editor of app.py called in any *)
(* order on one workspace.  The Run Preview button of app.py calls          *)
(* start_preview with the selected file while no preview is recorded, its   *)
(* Stop Preview button calls stop_preview while one is; here both are       *)
(* called in every state.                                                   *)

C_py == <<"c", ".", "p", "y">>

\* a workspace holding a.py, b.py and a.txt
PreviewFs == [p \in {A_py, B_py, A_txt} |-> File(X)]

\* the names start_preview is given: c.py does not exist
PreviewNames == {A_py, B_py, A_txt, C_py}

\* the ports other programs use: none, the first, all of them
OtherPorts == {{}, {StartPort}, StartPort..(StartPort + MaxAttempts - 1)}

\* the arrays of commands the executor is given
PreviewBatches ==
    {<<Dict(Delete, JStr(A_py), Absent, Absent)>>,
     <<Dict(Delete, JStr(B_py), Absent, Absent)>>,
     <<Dict(ChatAction, Absent, Text("hi"), Absent)>>}

\* the number of children spawned and of calls made in one run
MaxPid == 2
MaxCalls == 3

PreviewInit ==
    /\ fs = PreviewFs
    /\ session_state \in {SessionDefaults, Editing(A_py, X)}
    /\ procs = <<>>
    /\ client = NoClient
    /\ last = NoCall
    /\ calls = 0

\* the ways stop_preview can go in this state
Ways(ss, ps) ==
    IF ss.preview_process.t = "popen" /\ ps[ss.preview_process.v[1]].status = "alive"
    THEN StopWays ELSE {"none"}

\* what start_preview meets on its way: nothing when it refuses the file, no
\* new child when every port is in use
Previewable(python_filename) ==
    IsFile(fs, PathJoin(python_filename)) /\ HasPySuffix(PathJoin(python_filename))

StartWays(python_filename) ==
    IF Previewable(python_filename) THEN Ways(session_state, procs) ELSE {"none"}

StartPorts(python_filename) ==
    IF Previewable(python_filename) THEN OtherPorts ELSE {{}}

Launches(others) ==
    IF _find_available_port(others) = None THEN {"alive"}
    ELSE {"alive", "exited", "popen_error", "toast_error"}

CallStartPreview ==
    /\ calls < MaxCalls
    /\ Len(procs) < MaxPid
    /\ \E python_filename \in PreviewNames :
       \E way \in StartWays(python_filename), others \in StartPorts(python_filename) :
       \E launch \in Launches(others) :
        \E r \in {start_preview(fs, session_state, procs, python_filename, way,
                                others, launch)} :
            /\ calls' = calls + 1
            /\ session_state' = r.ss
            /\ procs' = r.procs
            /\ last' = [op |-> "start_preview", python_filename |-> python_filename,
                        ret |-> r.ret, path |-> r.path, stop |-> r.stop,
                        after_stop |-> r.after_stop,
                        prior |-> session_state.preview_process,
                        prior_alive |-> Alive(procs)]
            /\ UNCHANGED <<fs, client>>

CallStopPreview ==
    /\ calls < MaxCalls
    /\ \E way \in Ways(session_state, procs) :
        \E r \in {stop_preview(session_state, procs, way)} :
            /\ calls' = calls + 1
            /\ session_state' = r.ss
            /\ procs' = r.procs
            /\ last' = [op |-> "stop_preview", stop |-> r.path,
                        after_stop |-> PreviewFields(r.ss),
                        prior |-> session_state.preview_process]
            /\ UNCHANGED <<fs, client>>

\* a Preview Window that leaves the record of a process found dead
LivenessCheck_KeepsDead ==
    /\ calls < MaxCalls
    /\ session_state.preview_process # None
    /\ Truthy(session_state.preview_file)
    /\ calls' = calls + 1
    /\ last' = [op |-> "liveness_check",
                stop |-> IF session_state.preview_process.v[1] \in Alive(procs)
                         THEN "none" ELSE "already_stopped",
                after_stop |-> PreviewFields(session_state),
                prior |-> session_state.preview_process]
    /\ UNCHANGED <<fs, session_state, procs, client>>

\* the Preview Window of the Live Preview tab: a recorded process found dead
\* is cleared with stop_preview
LivenessCheck ==
    /\ calls < MaxCalls
    /\ session_state.preview_process # None
    /\ Truthy(session_state.preview_file)
    /\ \E r \in {IF session_state.preview_process.v[1] \in Alive(procs)
                 THEN [ss |-> session_state, procs |-> procs, path |-> "none"]
                 ELSE stop_preview(session_state, procs, "none")} :
        /\ calls' = calls + 1
        /\ session_state' = r.ss
        /\ procs' = r.procs
        /\ last' = [op |-> "liveness_check", stop |-> r.path,
                    after_stop |-> PreviewFields(r.ss),
                    prior |-> session_state.preview_process]
        /\ UNCHANGED <<fs, client>>

\* a child exits on its own, or a signal it was sent takes effect
ChildExit ==
    /\ \E pid \in Alive(procs) :
        /\ procs' = [procs EXCEPT ![pid].status = "exited"]
        /\ last' = [op |-> "child_exit", pid |-> pid]
    /\ UNCHANGED <<fs, session_state, client, calls>>

\* the file selector of the Workspace tab set to a listed file or to
\* "--- Select a file ---" (None)
SelectFile ==
    /\ calls < MaxCalls
    /\ \E newly_selected_filename \in
            {None} \cup {JStr(get_workspace_python_files(fs)[i]) :
                            i \in 1..Len(get_workspace_python_files(fs))} :
        /\ newly_selected_filename # session_state.selected_file
        /\ \E r \in {read_file(fs, newly_selected_filename, "ok")} :
            LET file_content ==
                    IF newly_selected_filename = None THEN <<>>
                    ELSE IF r.ret = None
                    THEN <<"# ERROR: Could not read file ">> \o newly_selected_filename.v
                    ELSE r.ret.v
            IN  /\ session_state' = [session_state EXCEPT
                        !.selected_file = newly_selected_filename,
                        !.file_content_on_load = file_content,
                        !.editor_unsaved_content = file_content,
                        !.last_saved_content = file_content]
                /\ last' = [op |-> "select_file", filename |-> newly_selected_filename]
        /\ calls' = calls + 1
        /\ UNCHANGED <<fs, procs, client>>

\* the Delete File button of the editor
ClickDelete ==
    /\ calls < MaxCalls
    /\ Truthy(session_state.selected_file)
    /\ session_state.confirm_delete_pending = Absent
    /\ session_state' = [session_state EXCEPT !.confirm_delete_pending = True]
    /\ last' = [op |-> "click_delete"]
    /\ calls' = calls + 1
    /\ UNCHANGED <<fs, procs, client>>

\* the "Yes, Delete" button of the confirmation
ConfirmDelete ==
    /\ calls < MaxCalls
    /\ Truthy(session_state.selected_file)
    /\ Truthy(Get(session_state.confirm_delete_pending))
    /\ \E io \in {"ok", "error", "toast_error"}, way \in Ways(session_state, procs) :
        \E r \in {delete_file_from_workspace(fs, session_state.selected_file, io)} :
            \E st \in {IF r.ret /\ session_state.preview_file = session_state.selected_file
                       THEN stop_preview(session_state, procs, way)
                       ELSE [ss |-> session_state, procs |-> procs, path |-> "none"]} :
                /\ fs' = r.fs
                /\ procs' = st.procs
                /\ session_state' =
                        IF r.ret
                        THEN [st.ss EXCEPT !.selected_file = None,
                                           !.file_content_on_load = <<>>,
                                           !.editor_unsaved_content = <<>>,
                                           !.last_saved_content = <<>>,
                                           !.confirm_delete_pending = Absent]
                        ELSE [st.ss EXCEPT !.confirm_delete_pending = Absent]
                /\ last' = [op |-> "confirm_delete",
                            filename |-> session_state.selected_file, ret |-> r.ret,
                            stop |-> st.path, after_stop |-> PreviewFields(st.ss),
                            prior |-> session_state.preview_process]
    /\ calls' = calls + 1
    /\ UNCHANGED client

\* the "Cancel Deletion" button of the confirmation
CancelDelete ==
    /\ calls < MaxCalls
    /\ Truthy(session_state.selected_file)
    /\ Truthy(Get(session_state.confirm_delete_pending))
    /\ session_state' = [session_state EXCEPT !.confirm_delete_pending = Absent]
    /\ last' = [op |-> "cancel_delete"]
    /\ calls' = calls + 1
    /\ UNCHANGED <<fs, procs, client>>

PreviewBatch == RunBatchOf(PreviewBatches, MaxCalls)

PreviewNext ==
    \/ CallStartPreview
    \/ CallStopPreview
    \/ LivenessCheck
    \/ ChildExit
    \/ SelectFile
    \/ ClickDelete
    \/ ConfirmDelete
    \/ CancelDelete
    \/ PreviewBatch

SpecPreview == PreviewInit /\ [][PreviewNext]_vars

\* C3: no preview outlives the file it runs: whenever a preview is recorded
\* (preview_process set), the file named by preview_file exists, because the
\* AI delete command and the confirmed manual delete both stop the preview
\* of the file they delete.
C3_NoPreviewOfDeletedFile ==
    session_state.preview_process # None
        => IsFile(fs, PathJoin(session_state.preview_file.v))

\* C4: at most one child spawned by start_preview is alive, in every state.
C4_AtMostOneChildAlive == Cardinality(Alive(procs)) <= 1

\* C5: a start_preview that succeeds while an earlier preview is recorded
\* and its child alive leaves exactly one child alive, the new one, recorded
\* for the new file, and the earlier child has exited.
C5_SecondStartReplacesFirst ==
    (/\ last.op = "start_preview"
     /\ last.ret
     /\ last.prior # None
     /\ last.prior.v[1] \in last.prior_alive)
        => /\ Alive(procs) = {session_state.preview_process.v[1]}
           /\ session_state.preview_file = JStr(last.python_filename)
           /\ procs[last.prior.v[1]].status = "exited"

\* the handles the session state can be made to hold
Handles == {None, NoPidHandle} \cup {Popen(pid) : pid \in DOMAIN procs}

\* C6: stop_preview leaves preview_process, preview_port, preview_url and
\* preview_file None on every path: in every call made, alone or from
\* start_preview, the liveness check or the manual delete, and for every
\* handle the state can hold (none, one without pid, one of a child alive or
\* exited) with every answer of the child and the operating system.
C6_StopClearsAllFields ==
    /\ (/\ last.op \in {"start_preview", "stop_preview", "liveness_check",
                        "confirm_delete"}
        /\ last.stop # "none")
            => last.after_stop = NoPreview
    /\ last.op = "stop_preview" => PreviewFields(session_state) = NoPreview
    /\ \A handle \in Handles, way \in StopWays :
            PreviewFields(stop_preview([session_state EXCEPT
                                            !.preview_process = handle],
                                       procs, way).ss) = NoPreview

\* stop_preview has been called on a recorded preview whose child had not
\* exited when the wait after kill() timed out, and is still alive
C6_Witness ==
    /\ last.op = "stop_preview"
    /\ last.stop = "kill_wait_timeout"
    /\ last.prior # None
    /\ last.prior.v[1] \in Alive(procs)
    /\ PreviewFields(session_state) = NoPreview

-----------------------------------------------------------------------------
(* services/gemini_service.py: the conversation adapter.  The text of an    *)
(* exception is a sequence of words.                                        *)

\* settings.GEMINI_SYSTEM_PROMPT_TEMPLATE as its f-string leaves it: each
\* "{{" and "}}" written in settings.py is one brace in the template, around
\* the example commands as around file_list
GEMINI_SYSTEM_PROMPT_TEMPLATE ==
    <<"Available commands: ", "{", "\"action\": \"create_update\"", "}",
      " Current Python files in workspace: ", "{", "file_list", "}">>

\* the template with file_list as its only field, as the comment above it in
\* settings.py describes it
FileListTemplate ==
    <<"Available commands: ", "{\"action\": \"create_update\"}",
      " Current Python files in workspace: ", "{", "file_list", "}">>

RECURSIVE Format(_, _)
\* template.format(file_list=file_list): ok is FALSE where it raises
\* KeyError for a field other than file_list
Format(template, file_list) ==
    IF template = <<>> THEN [ok |-> TRUE, text |-> <<>>]
    ELSE IF Head(template) = "{"
    THEN IF Len(template) >= 3 /\ template[2] = "file_list" /\ template[3] = "}"
         THEN With(Format(SubSeq(template, 4, Len(template)), file_list), LAMBDA r :
                [ok |-> r.ok, text |-> file_list \o r.text])
         ELSE [ok |-> FALSE, text |-> <<>>]
    ELSE With(Format(Tail(template), file_list), LAMBDA r :
            [ok |-> r.ok, text |-> <<Head(template)>> \o r.text])

\* str.lower() of one word
LowerWord(w) ==
    CASE w = "API" -> "api"
      [] w = "PERMISSION_DENIED" -> "permission_denied"
      [] w = "Quota" -> "quota"
      [] w = "Resource" -> "resource"
      [] w = "Connection" -> "connection"
      [] OTHER -> w

Lower(text) == [i \in 1..Len(text) |-> LowerWord(text[i])]

\* json.dumps([{"action": "chat", "content": content}])
ChatText(content) == Dumps(List(<<Chat(JStr(content))>>))

\* whether a model client is there after _initialize_gemini_client, and the
\* module state it leaves; construct is "ok" or "error" as genai.configure
\* and genai.GenerativeModel return or raise
_initialize_gemini_client(c, construct) ==
    IF ~c.model
    THEN IF ~c.key THEN [model |-> FALSE, client |-> c]
         ELSE IF construct = "ok"
         THEN [model |-> TRUE, client |-> [c EXCEPT !.model = TRUE]]
         ELSE [model |-> FALSE, client |-> c]
    ELSE [model |-> TRUE, client |-> c]

RECURSIVE JoinNames(_)
\* ', '.join(names)
JoinNames(names) ==
    IF names = <<>> THEN <<>>
    ELSE IF Len(names) = 1 THEN Head(names)
    ELSE Head(names) \o <<",", " ">> \o JoinNames(Tail(names))

\* ask_gemini_ai from the formatting of the system prompt on.  backend is
\* what the model backend does with the call: generate_content returns a
\* response whose text is read ("text"); generate_content raises with a
\* message, response staying unbound ("raises"); generate_content returns a
\* response and reading its text raises, the response holding a block
\* reason ("" for none) and the finish reasons of its candidates
\* ("text_raises").  prompt is the system prompt the backend is called with.
AskModel(c, template, current_workspace_files, backend) ==
    LET file_list_str == IF current_workspace_files # <<>>
                         THEN JoinNames(current_workspace_files) ELSE <<"None">>
        system_prompt_with_context == Format(template, file_list_str)
        answer(text, called) ==
            [ret |-> text, raised |-> FALSE, called |-> called, model |-> TRUE,
             client |-> c,
             prompt |-> IF called THEN system_prompt_with_context.text ELSE <<>>]
        \* a name read before it is assigned: UnboundLocalError
        unbound == [ret |-> <<>>, raised |-> TRUE, called |-> TRUE, model |-> TRUE,
                    client |-> c, prompt |-> system_prompt_with_context.text]
        message == backend.message
        lower == Lower(message)
    IN  IF ~system_prompt_with_context.ok
        THEN answer(ChatText(<<"AI Error: System prompt configuration issue.">>), FALSE)
        ELSE IF backend.kind = "text" THEN answer(backend.text, TRUE)
        ELSE IF \/ Contains(<<"API", "key", "not", "valid">>, lower)
                \/ Contains(<<"permission_denied">>, lower)
        THEN answer(ChatText(<<"AI Error: Invalid or missing Google API Key. Please check your configuration.">>), TRUE)
        ELSE IF \/ Contains(<<"429">>, message)
                \/ Contains(<<"quota">>, lower)
                \/ Contains(<<"resource", "has", "been", "exhausted">>, lower)
        THEN answer(ChatText(<<"AI Error: API Quota or Rate Limit Exceeded. Please try again later or check your Google Cloud project quotas.">>), TRUE)
        \* from here on the handler reads response
        ELSE IF backend.kind = "raises" THEN unbound
        ELSE IF Contains(<<"safety", "settings">>, lower) \/ backend.block_reason # ""
        THEN answer(ChatText(<<"AI Error: Request blocked by safety filters (Reason: ", backend.block_reason, "). Please revise your prompt.">>), TRUE)
        ELSE IF backend.candidates # <<>> /\ backend.candidates[1] # "STOP"
        THEN answer(ChatText(<<"AI Error: Response generation stopped prematurely (Reason: ", backend.candidates[1], "). This might be due to safety filters or length limits.">>), TRUE)
        ELSE answer(ChatText(<<"AI Error: ">> \o message \o <<"...">>), TRUE)

\* ask_gemini_ai that goes on to the backend with no client
ask_gemini_ai_NoClientCheck(c, template, current_workspace_files, construct, backend) ==
    With(_initialize_gemini_client(c, construct), LAMBDA m :
        [AskModel(m.client, template, current_workspace_files, backend)
            EXCEPT !.model = m.model])

\* what ask_gemini_ai returns (ret) or that it raised, whether it called the
\* backend (called), whether it had a model client (model), and the module
\* state it leaves
ask_gemini_ai(c, template, current_workspace_files, construct, backend) ==
    With(_initialize_gemini_client(c, construct), LAMBDA m :
        IF ~m.model
        THEN [ret |-> ChatText(<<"AI Error: Gemini client is not initialized. Please check API key and configuration.">>),
              raised |-> FALSE, called |-> FALSE, model |-> FALSE, client |-> m.client,
              prompt |-> <<>>]
        ELSE AskModel(m.client, template, current_workspace_files, backend))

\* _prepare_gemini_history(chat_history, system_prompt): the turns handed to
\* generate_content, each a role and a text
_prepare_gemini_history(chat_history, system_prompt) ==
    LET turn(role, text) == [role |-> role, text |-> text]
        content_str(msg) ==
            IF msg.role = "assistant" /\ msg.content.t = "list"
            THEN Dumps(msg.content)
            ELSE Str(msg.content)
        api_role(msg) == IF msg.role = "assistant" THEN "model" ELSE "user"
        sent == SelectSeq(chat_history, LAMBDA msg : content_str(msg) # <<>>)
    IN  <<turn("user", system_prompt),
          turn("model", ChatText(<<"Understood. I will respond only with JSON commands as instructed.">>))>>
        \o [i \in 1..Len(sent) |-> turn(api_role(sent[i]), content_str(sent[i]))]

\* the argument of generate_content in a call of ask_gemini_ai that returned
\* or raised as a says: no turns where the backend was not called
HistorySent(a, chat_history) ==
    IF a.called THEN _prepare_gemini_history(chat_history, a.prompt) ELSE <<>>

-----------------------------------------------------------------------------
(* The adapter called with a backend that answers or fails, and the chat    *)
(* input and the AI turn of app.py                                          *)

\* what the backend does with one call
Backends ==
    {[kind |-> "text", text |-> t] :
        t \in {Dumps(List(<<Dict(ChatAction, Absent, Text("hi"), Absent)>>)),
               Dumps(List(<<Dict(Delete, JStr(A_py), Absent, Absent)>>)),
               <<"Sure!">>}}
    \cup {[kind |-> "raises", message |-> m] :
            m \in {<<"400", "API", "key", "not", "valid">>,
                   <<"403", "PERMISSION_DENIED">>,
                   <<"429", "too", "many", "requests">>,
                   <<"Quota", "exceeded">>,
                   <<"Resource", "has", "been", "exhausted">>,
                   <<"blocked", "by", "safety", "settings">>,
                   <<"Connection", "refused">>}}
    \cup {[kind |-> "text_raises", message |-> <<"response.text", "needs", "a", "Part">>,
           block_reason |-> b, candidates |-> cs] :
            b \in {"", "SAFETY"}, cs \in {<<>>, <<"MAX_TOKENS">>}}

\* the number of calls made in one run
MaxAdapterCalls == 3

AdapterInit ==
    /\ fs = PreviewFs
    /\ session_state \in {SessionDefaults, Editing(A_py, X)}
    /\ procs = <<>>
    /\ client \in {[key |-> k, model |-> FALSE] : k \in BOOLEAN}
    /\ last = NoCall
    /\ calls = 0

\* ask_gemini_ai(chat_history, get_workspace_python_files(WORKSPACE_DIR)) with
\* the template of settings.py or with the one its comment describes
CallAskGemini ==
    /\ calls < MaxAdapterCalls
    /\ \E template \in {GEMINI_SYSTEM_PROMPT_TEMPLATE, FileListTemplate},
          construct \in {"ok", "error"}, backend \in Backends :
        \E r \in {ask_gemini_ai(client, template, get_workspace_python_files(fs),
                                construct, backend)} :
            /\ calls' = calls + 1
            /\ client' = r.client
            /\ last' = [op |-> "ask_gemini_ai", template |-> template,
                        backend |-> backend, ret |-> r.ret, raised |-> r.raised,
                        called |-> r.called, model |-> r.model,
                        files |-> get_workspace_python_files(fs),
                        sent |-> HistorySent(r, session_state.messages)]
            /\ UNCHANGED <<fs, session_state, procs>>

\* a chat input that sets the flag and keeps the instruction out of the
\* history
UserPrompt_DropsInstruction ==
    /\ calls < MaxAdapterCalls
    /\ session_state' = [session_state EXCEPT !.ai_is_thinking = TRUE]
    /\ last' = [op |-> "user_prompt"]
    /\ calls' = calls + 1
    /\ UNCHANGED <<fs, procs, client>>

\* the chat input of app.py
UserPrompt ==
    /\ calls < MaxAdapterCalls
    /\ session_state' = [session_state EXCEPT
            !.ai_is_thinking = TRUE,
            !.messages = Append(@, [role |-> "user", content |-> Text("do it")])]
    /\ last' = [op |-> "user_prompt"]
    /\ calls' = calls + 1
    /\ UNCHANGED <<fs, procs, client>>

\* an AI turn that puts the outcomes in the place of the instruction they
\* answer
AiTurn_OverwritesPrompt ==
    /\ calls < MaxAdapterCalls
    /\ session_state.ai_is_thinking
    /\ session_state.messages # <<>>
    /\ session_state.messages[Len(session_state.messages)].role = "user"
    /\ \E construct \in {"ok", "error"}, backend \in Backends :
        \E a \in {ask_gemini_ai(client, GEMINI_SYSTEM_PROMPT_TEMPLATE,
                                get_workspace_python_files(fs), construct, backend)} :
            \E r \in {IF a.raised
                      THEN [ret |-> <<>>, fs |-> fs, ss |-> session_state]
                      ELSE parse_and_execute_ai_commands(fs, session_state, a.ret,
                                                         <<"ok">>)} :
                /\ client' = a.client
                /\ fs' = r.fs
                /\ session_state' =
                        IF a.raised THEN session_state
                        ELSE [r.ss EXCEPT
                                !.messages = [@ EXCEPT ![Len(@)] =
                                                [role |-> "assistant",
                                                 content |-> List(r.ret)]],
                                !.ai_is_thinking = FALSE]
                /\ last' = [op |-> "ai_turn", backend |-> backend, ret |-> a.ret,
                            raised |-> a.raised, called |-> a.called,
                            model |-> a.model, before |-> fs,
                            before_ss |-> session_state, executed |-> r.ret,
                            template |-> GEMINI_SYSTEM_PROMPT_TEMPLATE,
                            files |-> get_workspace_python_files(fs),
                            sent |-> HistorySent(a, session_state.messages)]
    /\ calls' = calls + 1
    /\ UNCHANGED procs

\* the AI turn of app.py: ask_gemini_ai, then parse_and_execute_ai_commands
\* on what it returned, then the outcomes appended to the history; an
\* exception of ask_gemini_ai ends the run of the script there
AiTurn ==
    /\ calls < MaxAdapterCalls
    /\ session_state.ai_is_thinking
    /\ session_state.messages # <<>>
    /\ session_state.messages[Len(session_state.messages)].role = "user"
    /\ \E construct \in {"ok", "error"}, backend \in Backends :
        \E a \in {ask_gemini_ai(client, GEMINI_SYSTEM_PROMPT_TEMPLATE,
                                get_workspace_python_files(fs), construct, backend)} :
            \E r \in {IF a.raised
                      THEN [ret |-> <<>>, fs |-> fs, ss |-> session_state]
                      ELSE parse_and_execute_ai_commands(fs, session_state, a.ret,
                                                         <<"ok">>)} :
                /\ client' = a.client
                /\ fs' = r.fs
                /\ session_state' =
                        IF a.raised THEN session_state
                        ELSE [r.ss EXCEPT
                                !.messages = Append(@, [role |-> "assistant",
                                                        content |-> List(r.ret)]),
                                !.ai_is_thinking = FALSE]
                /\ last' = [op |-> "ai_turn", backend |-> backend, ret |-> a.ret,
                            raised |-> a.raised, called |-> a.called,
                            model |-> a.model, before |-> fs,
                            before_ss |-> session_state, executed |-> r.ret,
                            template |-> GEMINI_SYSTEM_PROMPT_TEMPLATE,
                            files |-> get_workspace_python_files(fs),
                            sent |-> HistorySent(a, session_state.messages)]
    /\ calls' = calls + 1
    /\ UNCHANGED procs

AdapterNext == CallAskGemini \/ UserPrompt \/ AiTurn

SpecAdapter == AdapterInit /\ [][AdapterNext]_vars

\* the text decodes as a JSON array of one chat command
OneChatCommand(text) ==
    LET commands == Loads(_clean_ai_response_text(text))
    IN  /\ commands.ok
        /\ commands.val.t = "list"
        /\ Len(commands.val.items) = 1
        /\ commands.val.items[1].t = "dict"
        /\ commands.val.items[1].action = ChatAction
        /\ commands.val.items[1].content.t = "str"

EditorState(ss) ==
    <<ss.selected_file, ss.file_content_on_load, ss.editor_unsaved_content,
      ss.last_saved_content>>

\* C8: with no model client (no API key, or the construction of the client
\* failed) ask_gemini_ai does not raise and does not call the backend; the
\* text it returns decodes as one chat command, and
\* parse_and_execute_ai_commands on it returns exactly one outcome, a chat
\* message, and changes neither the workspace nor the editor state.
C8_NoClientAnswersWithChat ==
    /\ (last.op \in {"ask_gemini_ai", "ai_turn"} /\ ~last.model)
        => /\ ~last.raised
           /\ ~last.called
           /\ OneChatCommand(last.ret)
           /\ \E r \in {parse_and_execute_ai_commands(fs, session_state, last.ret,
                                                      <<"ok">>)} :
                /\ Len(r.ret) = 1
                /\ r.ret[1].action = ChatAction
                /\ r.ret[1].status = Text("chat message")
                /\ r.fs = fs
                /\ r.ss = session_state
    /\ (last.op = "ai_turn" /\ ~last.model)
        => /\ Len(last.executed) = 1
           /\ last.executed[1].action = ChatAction
           /\ last.executed[1].status = Text("chat message")
           /\ fs = last.before
           /\ EditorState(session_state) = EditorState(last.before_ss)
           /\ PreviewFields(session_state) = PreviewFields(last.before_ss)

\* an AI turn has run with an API key whose client could not be constructed,
\* while a.py was open in the editor
C8_Witness ==
    /\ last.op = "ai_turn"
    /\ ~last.model
    /\ client.key
    /\ ~client.model
    /\ session_state.selected_file = JStr(A_py)
    /\ Len(session_state.messages) = 2

-----------------------------------------------------------------------------
(* The executor given the model's reply of one turn: the same reply twice,  *)
(* a reply that is no array of commands or is wrapped in a fence, and       *)
(* arrays of commands with fields missing, empty or of another type.        *)

TwiceItems ==
    {Dict(CreateUpdate, JStr(A_py), JStr(Y), Absent),
     Dict(CreateUpdate, JStr(A_py), Five, Absent),
     Dict(CreateUpdate, JStr(B_py), JStr(Y), Absent),
     Dict(CreateUpdate, JStr(Dot_a_py), JStr(Y), Absent),
     Dict(CreateUpdate, JStr(D_a_py), JStr(Y), Absent),
     Dict(Delete, JStr(A_py), Absent, Absent),
     Dict(Delete, JStr(B_py), Absent, Absent),
     Dict(Delete, Five, Absent, Absent)}

\* the longest array of commands that is executed twice
MaxTwiceLen == 2

TwiceBatches == UNION {[1..n -> TwiceItems] : n \in 0..MaxTwiceLen}

ReplyInit ==
    /\ fs \in {FullFs, NoAFs}
    /\ session_state \in {SessionDefaults}
            \cup (IF IsFile(fs, A_py) THEN {Editing(A_py, X)} ELSE {})
    /\ procs = <<>>
    /\ client = NoClient
    /\ last = NoCall
    /\ calls = 0

\* parse_and_execute_ai_commands called with one text and then, on what the
\* first call left, with the same text again; a fault of the operating
\* system meets the same store call of both runs
RunBatchTwice ==
    /\ calls < 1
    /\ \E items \in TwiceBatches :
        \E fault \in Faults(Len(items)) :
            LET text == Dumps(List(items))
                ios == Ios(fault, Len(items))
            IN  \E once \in {parse_and_execute_ai_commands(fs, session_state, text, ios)} :
                \E r \in {parse_and_execute_ai_commands(once.fs, once.ss, text, ios)} :
                    /\ calls' = calls + 1
                    /\ fs' = r.fs
                    /\ session_state' = r.ss
                    /\ last' = [op |-> "twice", text |-> text, commands |-> items,
                                ios |-> ios, before |-> fs, before_ss |-> session_state,
                                once_fs |-> once.fs, once_ss |-> once.ss,
                                ret |-> r.ret, executed |-> r.executed,
                                aborted |-> r.aborted]
                    /\ UNCHANGED <<procs, client>>

\* texts that json.loads reads as an array, as another JSON value, and
\* texts it cannot read
ArrayPayloads ==
    {Dumps(List(b)) : b \in {<<>>, <<CreateAX>>, <<DeleteA>>, <<CreateAX, DeleteA>>,
                              <<Chat(Text("hi"))>>,
                              <<Dict(CreateUpdate, JStr(B_py), JStr(Y), Absent)>>}}

NotArrayPayloads ==
    {Dumps(CreateAX), Dumps(DeleteA), Dumps(Five), Dumps(Text("hi")), Dumps(None),
     Dumps(EmptyDict)}

NotJsonPayloads ==
    {<<>>, <<"Sure, here are the commands">>, <<"[", ",", "]">>,
     Dumps(List(<<CreateAX>>)) \o <<"x">>,
     SubSeq(Dumps(List(<<CreateAX>>)), 1, Len(Dumps(List(<<CreateAX>>))) - 1),
     SubSeq(Dumps(DeleteA), 1, Len(Dumps(DeleteA)) - 1)}

Payloads ==
    {[kind |-> "array", text |-> t] : t \in ArrayPayloads}
        \cup {[kind |-> "not_array", text |-> t] : t \in NotArrayPayloads}
        \cup {[kind |-> "not_json", text |-> t] : t \in NotJsonPayloads}

\* the ways the model wraps its payload in a markdown code block
Wrappers == {"bare", "fence", "json", "JSON", "python", "inline", "padded", "twice"}

FenceTagged(tag, p) == Fence \o tag \o <<LF>> \o p \o <<LF>> \o Fence

Wrap(wrapper, p) ==
    CASE wrapper = "bare" -> p
      [] wrapper = "fence" -> FenceTagged(<<>>, p)
      [] wrapper = "json" -> FenceTagged(<<"j", "s", "o", "n">>, p)
      [] wrapper = "JSON" -> FenceTagged(<<"J", "S", "O", "N">>, p)
      [] wrapper = "python" -> FenceTagged(<<"p", "y", "t", "h", "o", "n">>, p)
      [] wrapper = "inline" -> Fence \o p \o Fence
      [] wrapper = "padded" ->
            <<" ", LF>> \o FenceTagged(<<"j", "s", "o", "n">>, p) \o <<LF>>
      [] wrapper = "twice" ->
            FenceTagged(<<"j", "s", "o", "n">>, FenceTagged(<<"j", "s", "o", "n">>, p))

\* no store call of the batch meets a fault
AllOk == [i \in 1..2 |-> "ok"]

\* parse_and_execute_ai_commands called with a reply text as the model wrote it
RunText ==
    /\ calls < 1
    /\ \E payload \in Payloads, wrapper \in Wrappers :
        LET text == Wrap(wrapper, payload.text)
        IN  \E r \in {parse_and_execute_ai_commands(fs, session_state, text, AllOk)} :
            /\ calls' = calls + 1
            /\ fs' = r.fs
            /\ session_state' = r.ss
            /\ last' = [op |-> "text", text |-> text, payload |-> payload.text,
                        kind |-> payload.kind, wrapper |-> wrapper, ios |-> AllOk,
                        before |-> fs, before_ss |-> session_state, ret |-> r.ret,
                        executed |-> r.executed, aborted |-> r.aborted]
            /\ UNCHANGED <<procs, client>>

Frobnicate == Text("frobnicate")

\* commands with a field missing, null, empty or of another type among
\* well-formed ones
ReplyItems ==
    {Dict(CreateUpdate, JStr(A_py), JStr(X), Absent),
     Dict(CreateUpdate, JStr(A_py), JStr(<<>>), Absent),
     Dict(CreateUpdate, JStr(A_py), Absent, Absent),
     Dict(CreateUpdate, JStr(A_py), None, Absent),
     Dict(CreateUpdate, Absent, JStr(X), Absent),
     Dict(CreateUpdate, JStr(<<>>), JStr(X), Absent),
     Dict(CreateUpdate, JStr(A_txt), JStr(X), Absent),
     Dict(CreateUpdate, JStr(A_txt), Absent, Absent),
     Dict(CreateUpdate, JStr(Up_a_py), JStr(X), Absent),
     Dict(Delete, Absent, Absent, Absent),
     Dict(Delete, JStr(<<>>), Absent, Absent),
     Dict(Delete, None, Absent, Absent),
     Dict(Delete, Five, Absent, Absent),
     Dict(Frobnicate, JStr(A_py), Absent, Absent),
     Dict(Absent, JStr(A_py), JStr(Y), Absent)}

\* the longest array of such commands
MaxReplyLen == 2

ReplyBatches == UNION {[1..n -> ReplyItems] : n \in 0..MaxReplyLen}

RunReply == RunBatchOf(ReplyBatches, 1)

ReplyNext == RunBatchTwice \/ RunText \/ RunReply

SpecReply == ReplyInit /\ [][ReplyNext]_vars

DecodeFails ==
    /\ last.op = "text"
    /\ \/ last.kind # "array"
       \/ last.wrapper \in {"JSON", "python", "twice"}

\* C15: when the fence-stripped text is not valid JSON, or is valid JSON but
\* not an array, no command is executed, the workspace and the session state
\* are unchanged and exactly one chat outcome describing the error, which
\* has no status of its own, is returned.
C15_DecodeFailureIsOneChat ==
    DecodeFails =>
        /\ fs = last.before
        /\ session_state = last.before_ss
        /\ last.executed = <<>>
        /\ Len(last.ret) = 1
        /\ last.ret[1].action = ChatAction
        /\ last.ret[1].status = Absent
        /\ last.ret[1].content.t = "str"
        /\ last.ret[1].content.v[1] \in
                {"AI Error: Invalid JSON received. Response: ",
                 "AI Error: Response was not a list of commands."}

\* the reply was the object {"action": "create_update", "filename": "a.py",
\* "content": "x"} without the array around it, while a.py did not exist
C15_Witness ==
    /\ last.op = "text"
    /\ last.text = Dumps(CreateAX)
    /\ ~IsFile(last.before, A_py)
    /\ ~IsFile(fs, A_py)
    /\ Len(last.ret) = 1
    /\ last.ret[1].content = Text("AI Error: Response was not a list of commands.")

\* C17: an array of commands wrapped in a triple-backtick fence, with any
\* tag or none, on lines of its own or not, is decoded and executed exactly
\* as the array without the fence.
C17_FenceWithAnyTag ==
    (/\ last.op = "text"
     /\ last.kind = "array"
     /\ last.wrapper \in {"fence", "json", "JSON", "python", "inline", "padded"})
        => \E bare \in {parse_and_execute_ai_commands(last.before, last.before_ss,
                                                     last.payload, last.ios)} :
            /\ last.ret = bare.ret
            /\ fs = bare.fs
            /\ session_state = bare.ss

\* the field is missing, null or the empty string
Empty(field) == field \in {Absent, None, JStr(<<>>)}

\* a create_update without a filename or without a content, or a delete
\* without a filename
LacksFields(c) ==
    \/ c.action = CreateUpdate /\ (Empty(c.filename) \/ c.content \in {Absent, None})
    \/ c.action = Delete /\ Empty(c.filename)

\* C18: the executor marks a create_update whose filename is missing, null or
\* empty, or whose content is missing or null, `failed: missing parameters`
\* and a delete whose filename is missing, null or empty `failed: missing
\* filename`; an array of such commands raises nothing and changes neither
\* the workspace nor the session state.  A create_update of a.py with the
\* empty string as content is a write: it succeeds and leaves a.py empty.
C18_MissingFieldsFail ==
    ExecCall =>
        /\ \A i \in 1..Len(last.executed) :
            LET c == last.commands[i]
                status == last.executed[i].status
            IN  /\ (LacksFields(c) /\ c.action = CreateUpdate)
                        => status = Text("failed: missing parameters")
                /\ (LacksFields(c) /\ c.action = Delete)
                        => status = Text("failed: missing filename")
                /\ (c = Dict(CreateUpdate, JStr(A_py), JStr(<<>>), Absent)
                        /\ last.ios[i] = "ok")
                        => status = Text("success")
        /\ (\A i \in 1..Len(last.commands) : LacksFields(last.commands[i]))
                => /\ ~last.aborted
                   /\ last.ret = last.executed
                   /\ Len(last.ret) = Len(last.commands)
                   /\ fs = last.before
                   /\ session_state = last.before_ss
        /\ (last.commands = <<Dict(CreateUpdate, JStr(A_py), JStr(<<>>), Absent)>>
                /\ NoFault)
                => (IsFile(fs, A_py) /\ fs[A_py].data = <<>>)

\* a create_update of a.py without content, while a.py is open in the editor,
\* was followed by a delete with an empty filename: both are marked and a.py
\* and the editor are as they were
C18_Witness ==
    /\ ExecCall
    /\ last.commands = <<Dict(CreateUpdate, JStr(A_py), Absent, Absent),
                         Dict(Delete, JStr(<<>>), Absent, Absent)>>
    /\ last.before_ss = Editing(A_py, X)
    /\ last.ret[1].status = Text("failed: missing parameters")
    /\ last.ret[2].status = Text("failed: missing filename")
    /\ fs[A_py].data = X
    /\ session_state = last.before_ss

\* the action is none of create_update, delete and chat
UnknownAction(c) == Get(c.action) \notin {CreateUpdate, Delete, ChatAction}

\* C19: an object whose action is unknown or missing is in the returned list
\* at its position with status `failed: unknown action (<action>)`, and an
\* array of such objects changes neither the workspace nor the session state.
C19_UnknownActionIsReported ==
    ExecCall =>
        /\ \A i \in 1..Len(last.commands) :
            UnknownAction(last.commands[i]) =>
                /\ i <= Len(last.ret)
                /\ last.ret[i].filename = last.commands[i].filename
                /\ last.ret[i].status =
                        JStr(<<"failed: unknown action (">>
                                \o Str(Get(last.commands[i].action)) \o <<")">>)
        /\ (\A i \in 1..Len(last.commands) : UnknownAction(last.commands[i]))
                => (fs = last.before /\ session_state = last.before_ss)

\* a create_update with a text as filename that does not end with ".py"
NotPyName(c) ==
    /\ c.action = CreateUpdate
    /\ c.filename.t = "str"
    /\ ~EndsWith(c.filename.v, DotPy)

\* C20 as stated: every create_update whose filename does not end with ".py"
\* is marked `failed: invalid filename`.
C20_NotPyIsInvalidFilename ==
    ExecCall =>
        \A i \in 1..Len(last.executed) :
            NotPyName(last.commands[i])
                => last.executed[i].status = Text("failed: invalid filename")

\* the write of command c is attempted and fails: the store refuses the
\* name, or the operating system fails the open or the write
WriteFails(c, io) ==
    /\ c.action = CreateUpdate
    /\ c.filename.t = "str"
    /\ EndsWith(c.filename.v, DotPy)
    /\ c.content.t = "str"
    /\ (EscapingName(c.filename.v) \/ io # "ok")

\* C20 amended: a create_update whose filename is a non-empty text not ending
\* with ".py" and whose content is given is marked `failed: invalid
\* filename` whatever the operating system would do to a write, and an array
\* of such commands changes neither the workspace nor the session state; a
\* create_update whose write is attempted and fails is marked `failed: save
\* error`.
C20_InvalidFilenameOrSaveError ==
    ExecCall =>
        /\ \A i \in 1..Len(last.executed) :
            LET c == last.commands[i]
                status == last.executed[i].status
            IN  /\ (NotPyName(c) /\ ~LacksFields(c))
                        => status = Text("failed: invalid filename")
                /\ WriteFails(c, last.ios[i]) => status = Text("failed: save error")
        /\ (\A i \in 1..Len(last.commands) :
                NotPyName(last.commands[i]) /\ ~LacksFields(last.commands[i]))
                => /\ last.ret = last.executed
                   /\ fs = last.before
                   /\ session_state = last.before_ss

\* a create_update of a.txt, which exists, met an operating system that would
\* have failed the write: it is marked invalid and a.txt is as it was; the
\* create_update of a.py after it was written
C20_Witness ==
    /\ ExecCall
    /\ last.commands = <<Dict(CreateUpdate, JStr(A_txt), JStr(X), Absent),
                         Dict(CreateUpdate, JStr(A_py), JStr(<<>>), Absent)>>
    /\ last.ios[1] = "write_error"
    /\ last.ret[1].status = Text("failed: invalid filename")
    /\ last.ret[2].status = Text("success")
    /\ fs[A_txt] = last.before[A_txt]
    /\ fs[A_py].data = <<>>

-----------------------------------------------------------------------------
(* What one command of the executor does to the editor *)

\* the loop body run on command_data alone, from the current state
Step(command_data, io) ==
    ExecuteCommand([fs |-> fs, ss |-> session_state, executed |-> <<>>,
                    aborted |-> FALSE], command_data, io)

\* the commands tried on every state: those of ExecItems and deletes of
\* b.py and of a.py under another spelling
EditorCommands ==
    {c \in ExecItems : c.t = "dict"}
        \cup {Dict(Delete, JStr(B_py), Absent, Absent),
              Dict(Delete, JStr(Dot_a_py), Absent, Absent)}

Succeeded(r) == ~r.aborted /\ r.executed[1].status = Text("success")

\* the editor holds text for the file selected before
Refreshed(ss, text) ==
    EditorState(ss) = <<session_state.selected_file, text, text, text>>

\* C21: a create_update that succeeds for the filename that is
\* selected_file sets file_content_on_load, editor_unsaved_content and
\* last_saved_content to its content and keeps the selection; one that
\* succeeds for another filename, or fails, leaves the editor state as it was.
C21_CreateRefreshesOpenFile ==
    /\ \A c \in EditorCommands, io \in {"ok", "open_error", "write_error"} :
        c.action = CreateUpdate =>
            \E r \in {Step(c, io)} :
                IF Succeeded(r) /\ session_state.selected_file = c.filename
                THEN Refreshed(r.ss, c.content.v)
                ELSE EditorState(r.ss) = EditorState(session_state)
    /\ (ExecCall /\ Len(last.commands) = 1 /\ last.commands[1].t = "dict"
            /\ last.commands[1].action = CreateUpdate)
        => IF /\ ~last.aborted
              /\ last.ret[1].status = Text("success")
              /\ last.before_ss.selected_file = last.commands[1].filename
           THEN EditorState(session_state) =
                    <<last.before_ss.selected_file, last.commands[1].content.v,
                      last.commands[1].content.v, last.commands[1].content.v>>
           ELSE EditorState(session_state) = EditorState(last.before_ss)

\* with a.py open and holding x, the AI wrote the empty text to a.py: the
\* three editor contents are empty and a.py is still selected
C21_Witness ==
    /\ ExecCall
    /\ last.commands = <<Dict(CreateUpdate, JStr(A_py), JStr(<<>>), Absent)>>
    /\ last.before_ss = Editing(A_py, X)
    /\ last.ret[1].status = Text("success")
    /\ session_state = Editing(A_py, <<>>)
    /\ fs[A_py].data = <<>>

\* no file is open in the editor
Closed == <<None, <<>>, <<>>, <<>>>>

\* C22: a delete whose file is removed, or was already absent, is marked
\* `success`; if its filename is selected_file the selection is unset and the
\* three editor contents are emptied, and every other delete, successful or
\* not, leaves the editor state as it was.
C22_DeleteClosesOpenFile ==
    /\ \A c \in EditorCommands, io \in {"ok", "error"} :
        c.action = Delete =>
            \E r \in {Step(c, io)} :
                /\ (/\ ValidName(Get(c.filename))
                    /\ (~IsFile(fs, PathJoin(c.filename.v)) \/ io = "ok"))
                        => (Succeeded(r) /\ ~IsFile(r.fs, PathJoin(c.filename.v)))
                /\ IF Succeeded(r) /\ session_state.selected_file = c.filename
                   THEN EditorState(r.ss) = Closed
                   ELSE EditorState(r.ss) = EditorState(session_state)
    /\ (ExecCall /\ Len(last.commands) = 1 /\ last.commands[1].t = "dict"
            /\ last.commands[1].action = Delete)
        => IF /\ ~last.aborted
              /\ last.ret[1].status = Text("success")
              /\ last.before_ss.selected_file = last.commands[1].filename
           THEN EditorState(session_state) = Closed
           ELSE EditorState(session_state) = EditorState(last.before_ss)

\* with a.py open in the editor the AI deleted a.py: the editor is closed
C22_Witness ==
    /\ ExecCall
    /\ last.commands = <<DeleteA>>
    /\ last.before_ss = Editing(A_py, X)
    /\ IsFile(last.before, A_py)
    /\ ~IsFile(fs, A_py)
    /\ last.ret[1].status = Text("success")
    /\ EditorState(session_state) = Closed

\* chat commands with and without a filename, with a text, the empty text,
\* a number or nothing as content
ChatCommands ==
    {Dict(ChatAction, filename, content, Absent) :
        filename \in {Absent, JStr(A_py), JStr(A_txt)},
        content \in {Text("hi"), JStr(<<>>), Five, Absent}}

IsChat(c) == c.t = "dict" /\ c.action = ChatAction

\* C23: a chat command changes no file and nothing of the session state,
\* editor and preview fields included; its outcome is the command itself,
\* content and filename as given, with status `chat message`.
C23_ChatHasNoEffect ==
    /\ \A c \in ChatCommands :
        \E r \in {Step(c, "ok")} :
            /\ ~r.aborted
            /\ r.fs = fs
            /\ r.ss = session_state
            /\ r.executed = <<[c EXCEPT !.status = Text("chat message")]>>
    /\ (ExecCall /\ \A i \in 1..Len(last.commands) : IsChat(last.commands[i]))
        => /\ fs = last.before
           /\ session_state = last.before_ss
           /\ Len(last.ret) = Len(last.commands)
           /\ \A i \in 1..Len(last.commands) :
                last.ret[i] = [last.commands[i] EXCEPT !.status = Text("chat message")]

\* the executor was given one chat command while a preview was recorded and
\* its child alive: file system, editor and preview are as before
C23_Witness ==
    /\ ExecCall
    /\ last.commands = <<Dict(ChatAction, Absent, Text("hi"), Absent)>>
    /\ last.ret[1].content = Text("hi")
    /\ last.ret[1].status = Text("chat message")
    /\ session_state.preview_process # None
    /\ session_state.preview_process.v[1] \in Alive(procs)
    /\ session_state = last.before_ss
    /\ fs = last.before

-----------------------------------------------------------------------------
(* services/preview_service.py called directly: start_preview with any      *)
(* name, on a workspace with files beside it and in a subdirectory, and     *)
(* stop_preview in every state.                                             *)

\* the names start_preview is given: a.py, a file beside the workspace, a
\* file that is no Python file, a file that does not exist, a directory and
\* the empty name
ManagerNames == {A_py, Up_a_py, A_txt, C_py, D, <<>>}

\* the number of children spawned and of calls made in one run
MaxManagerPid == 2
MaxManagerCalls == 3

ManagerInit ==
    /\ fs = FullFs
    /\ session_state = SessionDefaults
    /\ procs = <<>>
    /\ client = NoClient
    /\ last = NoCall
    /\ calls = 0

\* stop_preview that kills a child alive at once
StopSignals_KillFirst(ss, ps, way) ==
    IF ss.preview_process.t = "popen" /\ ps[ss.preview_process.v[1]].status = "alive"
    THEN <<"kill">>
    ELSE <<>>

\* terminate() and kill() as stop_preview calls them on the recorded child:
\* none for no handle, a handle without pid or a child that poll() reports
\* as exited; kill() only after the wait that follows terminate() timed
\* out and poll() still reports the child alive
StopSignals(ss, ps, way) ==
    IF ss.preview_process.t = "popen" /\ ps[ss.preview_process.v[1]].status = "alive"
    THEN IF way \in {"exits_on_kill", "kill_wait_timeout"}
         THEN <<"terminate", "kill">>
         ELSE <<"terminate">>
    ELSE <<>>

\* the waits with a timeout stop_preview makes: one after terminate(), one
\* after kill()
StopWaits(ss, ps, way) ==
    IF ss.preview_process.t = "popen" /\ ps[ss.preview_process.v[1]].status = "alive"
    THEN CASE way \in {"exits_on_kill", "kill_wait_timeout"} -> 2
           [] way \in {"exits_on_terminate", "exits_before_kill"} -> 1
           [] OTHER -> 0
    ELSE 0

ManagerStart ==
    /\ calls < MaxManagerCalls
    /\ Len(procs) < MaxManagerPid
    /\ \E python_filename \in ManagerNames :
       \E way \in StartWays(python_filename), others \in StartPorts(python_filename) :
       \E launch \in Launches(others) :
        \E r \in {start_preview(fs, session_state, procs, python_filename, way,
                                others, launch)} :
            /\ calls' = calls + 1
            /\ session_state' = r.ss
            /\ procs' = r.procs
            /\ last' = [op |-> "start_preview", python_filename |-> python_filename,
                        ret |-> r.ret, path |-> r.path, stop |-> r.stop,
                        after_stop |-> r.after_stop, launch |-> launch,
                        others |-> others, before_ss |-> session_state,
                        before_procs |-> procs]
            /\ UNCHANGED <<fs, client>>

ManagerStop ==
    /\ calls < MaxManagerCalls
    /\ \E way \in Ways(session_state, procs) :
        \E r \in {stop_preview(session_state, procs, way)} :
            /\ calls' = calls + 1
            /\ session_state' = r.ss
            /\ procs' = r.procs
            /\ last' = [op |-> "stop_preview", stop |-> r.path, way |-> way,
                        signals |-> StopSignals(session_state, procs, way),
                        waits |-> StopWaits(session_state, procs, way),
                        before_ss |-> session_state, before_procs |-> procs]
            /\ UNCHANGED <<fs, client>>

ManagerNext == ManagerStart \/ ManagerStop \/ ChildExit

SpecManager == ManagerInit /\ [][ManagerNext]_vars

\* the path names a file inside the workspace directory
UnderWorkspace(path) ==
    /\ ~StartsWith(path, Slash)
    /\ \A i \in 1..Len(Segments(path, <<>>)) : Segments(path, <<>>)[i] # DotDot

\* C24: start_preview of a name that is no existing file under the workspace,
\* or that has no .py extension, returns False, spawns no child and leaves
\* the four preview fields as they were.
C24_InvalidTargetIsRefused ==
    (/\ last.op = "start_preview"
     /\ ~(/\ IsFile(fs, PathJoin(last.python_filename))
          /\ UnderWorkspace(PathJoin(last.python_filename))
          /\ HasPySuffix(PathJoin(last.python_filename))))
        => /\ last.ret = FALSE
           /\ procs = last.before_procs
           /\ PreviewFields(session_state) = PreviewFields(last.before_ss)

\* C25: stop_preview called while no handle is recorded sends no signal,
\* changes no process, leaves the four preview fields None and every other
\* field of the session state as it was; called again, any number of times,
\* it leaves that same state.
C25_StopWithoutPreviewIsNoOp ==
    /\ (last.op = "stop_preview" /\ last.before_ss.preview_process = None)
        => /\ last.stop = "no_process"
           /\ last.signals = <<>>
           /\ last.waits = 0
           /\ procs = last.before_procs
           /\ PreviewFields(session_state) = NoPreview
           /\ EditorState(session_state) = EditorState(last.before_ss)
    /\ session_state.preview_process = None
        => \A way \in StopWays :
            \E r \in {stop_preview(session_state, procs, way)} :
                \E again \in {stop_preview(r.ss, r.procs, way)} :
                    /\ PreviewFields(r.ss) = NoPreview /\ r.procs = procs
                    /\ again.ss = r.ss /\ again.procs = procs
                    /\ PreviewFields(session_state) = NoPreview => r.ss = session_state

\* stop_preview has been called with no preview recorded while a child that
\* survived an earlier stop is alive: the child is still alive
C25_Witness ==
    /\ last.op = "stop_preview"
    /\ last.before_ss.preview_process = None
    /\ Alive(procs) # {}
    /\ PreviewFields(session_state) = NoPreview
    /\ calls = 3

\* C26: start_preview returns True, with the handle recorded, only for a
\* child that was alive when polled after the startup wait, and then the
\* handle is that child's and port, URL and file name are set; for a child
\* that had exited by then it returns False and no handle is recorded, and
\* the four preview fields are None when the call began with a handle or
\* with all four None.
C26_RunningOnlyIfAliveAfterStartup ==
    last.op = "start_preview"
        => /\ (\/ last.ret
               \/ session_state.preview_process # None /\ last.path # "invalid_file")
                => /\ last.ret
                   /\ last.launch = "alive"
                   /\ last.path = "started"
                   /\ Len(procs) = Len(last.before_procs) + 1
                   /\ procs[Len(procs)].status = "alive"
                   /\ session_state.preview_process = Popen(Len(procs))
                   /\ session_state.preview_port = PyInt(procs[Len(procs)].port)
                   /\ session_state.preview_url # None
                   /\ session_state.preview_file = JStr(last.python_filename)
           /\ last.path = "exited_early"
                => /\ ~last.ret
                   /\ last.launch = "exited"
                   /\ Len(procs) = Len(last.before_procs) + 1
                   /\ procs[Len(procs)].status = "exited"
                   /\ session_state.preview_process = None
                   /\ (\/ last.before_ss.preview_process # None
                       \/ PreviewFields(last.before_ss) = NoPreview)
                        => PreviewFields(session_state) = NoPreview
           /\ (/\ last.launch = "exited"
               /\ Previewable(last.python_filename)
               /\ Len(procs) > Len(last.before_procs))
                => last.path = "exited_early"

\* start_preview, called while a preview was running, spawned a child that
\* had exited when polled
C26_Witness ==
    /\ last.op = "start_preview"
    /\ last.path = "exited_early"
    /\ last.before_ss.preview_process # None
    /\ ~last.ret
    /\ session_state.preview_process = None

\* the ports _find_available_port tries
PortRange == StartPort..(StartPort + MaxAttempts - 1)

\* sets of ports other programs hold: none, the first, the first ones with a
\* gap, all but the last, all
ProbeSets ==
    {{}, {StartPort}, {StartPort, StartPort + 1, StartPort + 3},
     PortRange \ {StartPort + MaxAttempts - 1}, PortRange}

\* port is what a probe of the range finds with these ports in use
LowestFree(port, busy) ==
    IF PortRange \subseteq busy THEN port = None
    ELSE /\ port.t = "int"
         /\ port.v[1] \in PortRange \ busy
         /\ \A q \in PortRange : q < port.v[1] => q \in busy

\* C27: _find_available_port returns the lowest port of
\* [StartPort, StartPort + MaxAttempts) that is not in use, and None exactly
\* when all of them are in use; start_preview spawns its child on that port,
\* and with no port it returns False, spawns nothing and records no preview.
C27_LowestBindablePort ==
    /\ \A others \in ProbeSets :
        LowestFree(_find_available_port(BusyPorts(procs, others)),
                   BusyPorts(procs, others))
    /\ (last.op = "start_preview" /\ last.path # "invalid_file")
        => \E busy \in {BusyPorts(SubSeq(procs, 1, Len(last.before_procs)),
                                  last.others)} :
            /\ Len(procs) > Len(last.before_procs)
                => LowestFree(PyInt(procs[Len(procs)].port), busy)
            /\ last.path = "no_port" <=> PortRange \subseteq busy
            /\ last.path = "no_port"
                => /\ ~last.ret
                   /\ Len(procs) = Len(last.before_procs)
                   /\ session_state.preview_process = None

\* start_preview found every port in use: it has spawned no child; and a
\* child alive holds the first port, so that a probe now skips it
C27_Witness ==
    /\ last.op = "start_preview"
    /\ last.path = "no_port"
    /\ Len(procs) = Len(last.before_procs)
    /\ Alive(procs) # {}
    /\ _find_available_port(BusyPorts(procs, {})) = PyInt(StartPort + 1)

\* the child recorded before the last call was alive
RecordedAlive ==
    /\ last.before_ss.preview_process.t = "popen"
    /\ last.before_procs[last.before_ss.preview_process.v[1]].status = "alive"

\* C28: stop_preview sends terminate() first to a child that is alive and
\* waits; it sends kill(), and waits a second time, only when the child had
\* not exited when the first wait timed out nor at the poll that follows; it
\* sends nothing to a child that poll() reports as exited; and it returns
\* after at most two waits with the four preview fields None.
C28_StopEscalatesInOrder ==
    last.op = "stop_preview"
        => /\ last.signals \in {<<>>, <<"terminate">>, <<"terminate", "kill">>}
           /\ RecordedAlive => last.signals[1] = "terminate"
           /\ ~RecordedAlive => last.signals = <<>> /\ last.waits = 0
           /\ Len(last.signals) = 2
                <=> RecordedAlive /\ last.way \in {"exits_on_kill", "kill_wait_timeout"}
           /\ (RecordedAlive /\ last.way \in {"exits_on_terminate", "exits_before_kill"})
                => /\ last.signals = <<"terminate">>
                   /\ last.waits = 1
                   /\ procs[last.before_ss.preview_process.v[1]].status = "exited"
           /\ last.waits <= Len(last.signals)
           /\ Len(last.signals) = 2 => last.waits = 2
           /\ last.stop = (IF RecordedAlive THEN last.way
                           ELSE IF last.before_ss.preview_process = None
                           THEN "no_process" ELSE "already_stopped")
           /\ PreviewFields(session_state) = NoPreview
           /\ \A p \in DOMAIN procs :
                procs[p] # last.before_procs[p]
                    => Popen(p) = last.before_ss.preview_process

\* stop_preview sent terminate() and then kill() to a child that had not
\* exited when the second wait timed out: the state is stopped, the child
\* alive
C28_Witness ==
    /\ last.op = "stop_preview"
    /\ last.signals = <<"terminate", "kill">>
    /\ last.way = "kill_wait_timeout"
    /\ last.waits = 2
    /\ PreviewFields(session_state) = NoPreview
    /\ Alive(procs) # {}

\* C29: when the Preview Window is rendered with a process recorded, the
\* live view is shown exactly when that process is alive at the check, and
\* the record is then kept; a process found dead gets no live view and
\* stop_preview, which signals nothing, sets the four preview fields to
\* None, so that the rerun finds no preview to show.
C29_DeadPreviewIsReclaimed ==
    /\ last.op = "liveness_check"
        => /\ last.prior.t = "popen"
           /\ last.stop = "none" <=> procs[last.prior.v[1]].status = "alive"
           /\ last.stop = "none" => session_state.preview_process = last.prior
           /\ last.stop # "none"
                => /\ last.stop = "already_stopped"
                   /\ last.after_stop = NoPreview
                   /\ PreviewFields(session_state) = NoPreview
                   /\ session_state.preview_process = None
    /\ (/\ session_state.preview_process.t = "popen"
        /\ procs[session_state.preview_process.v[1]].status = "exited")
        => \E r \in {stop_preview(session_state, procs, "none")} :
            /\ PreviewFields(r.ss) = NoPreview
            /\ r.procs = procs
            /\ r.path = "already_stopped"

\* the Preview Window was rendered after the child of the preview had
\* exited on its own: the record is cleared
C29_Witness ==
    /\ last.op = "liveness_check"
    /\ last.stop = "already_stopped"
    /\ procs[last.prior.v[1]].status = "exited"
    /\ PreviewFields(session_state) = NoPreview

\* the four preview fields are all None, or they are the handle of a child
\* spawned, the port and the file it was spawned with and the URL of that
\* port
WholeRecord(ss, ps) ==
    \/ PreviewFields(ss) = NoPreview
    \/ /\ ss.preview_process.t = "popen"
       /\ ss.preview_process.v[1] \in DOMAIN ps
       /\ ss.preview_port = PyInt(ps[ss.preview_process.v[1]].port)
       /\ ss.preview_url =
            JStr(<<"http://localhost:", ToString(ps[ss.preview_process.v[1]].port)>>)
       /\ ss.preview_file = JStr(ps[ss.preview_process.v[1]].file)

\* C30: when start_preview or stop_preview has returned, the four preview
\* fields are all None or all set, and when set the URL is that of the port
\* and the handle is the child spawned for the file.
C30_PreviewRecordIsWhole ==
    last.op \in {"start_preview", "stop_preview"}
        => WholeRecord(session_state, procs)

-----------------------------------------------------------------------------
(* utils/file_utils.py: get_workspace_python_files called on workspaces     *)
(* holding any of a.py, a.txt, a file named .py, a file in a subdirectory,  *)
(* and b.py as a file or as a directory                                     *)

\* get_workspace_python_files(workspace_dir) with workspace_dir.is_dir() as
\* given: the empty list for a workspace that is no directory
get_workspace_python_files_of(workspace_is_dir, files) ==
    IF ~workspace_is_dir THEN <<>>
    ELSE get_workspace_python_files(files)

ListingFss ==
    {[p \in present \cup {D} \cup (IF b = "absent" THEN {} ELSE {B_py}) |->
        IF p = D \/ (p = B_py /\ b = "dir") THEN Dir ELSE File(X)] :
        present \in SUBSET {A_py, A_txt, DotPy, D_a_py, Up_a_py},
        b \in {"absent", "file", "dir"}}
        \cup {EmptyFs}

\* the number of listings made in one run
MaxListingCalls == 1

ListingInit ==
    /\ fs \in ListingFss
    /\ session_state = SessionDefaults
    /\ procs = <<>>
    /\ client = NoClient
    /\ last = NoCall
    /\ calls = 0

\* a workspace that is no directory holds no files
CallListFiles ==
    /\ calls < MaxListingCalls
    /\ \E workspace_is_dir \in (IF fs = EmptyFs THEN BOOLEAN ELSE {TRUE}) :
        last' = [op |-> "get_workspace_python_files",
                 workspace_is_dir |-> workspace_is_dir,
                 ret |-> get_workspace_python_files_of(workspace_is_dir, fs)]
    /\ calls' = calls + 1
    /\ UNCHANGED <<fs, session_state, procs, client>>

ListingNext == CallListFiles

SpecListing == ListingInit /\ [][ListingNext]_vars

\* the regular files directly in the workspace whose name ends with .py
TopLevelDotPyNames(files) ==
    {p \in DOMAIN files :
        IsFile(files, p) /\ ~Contains(Slash, p) /\ EndsWith(p, DotPy)}

\* C33: get_workspace_python_files returns the names of the regular files
\* directly in the workspace that end with .py, each once, in ascending
\* order, and nothing else; it returns the empty list for a workspace that
\* is no directory.
C33_ListsTopLevelPyFilesSorted ==
    last.op = "get_workspace_python_files"
        => /\ {last.ret[i] : i \in 1..Len(last.ret)} =
                (IF last.workspace_is_dir THEN TopLevelDotPyNames(fs) ELSE {})
           /\ \A i, j \in 1..Len(last.ret) :
                i < j => TextLess(last.ret[i], last.ret[j])

\* C34: read_file of a text name that does not escape the workspace and
\* names no file there returns None, does not raise and leaves every file
\* as it was, none created.
C34_ReadMissingFileIsNone ==
    (/\ last.op = "read_file"
     /\ last.filename.t = "str"
     /\ last.filename.v # <<>>
     /\ ~EscapingName(last.filename.v)
     /\ ~IsFile(last.before, PathJoin(last.filename.v)))
        => /\ last.ret = None
           /\ ~last.raised
           /\ fs = last.before

\* read_file has been called for b.py, which the workspace does not hold
C34_Witness ==
    /\ last.op = "read_file"
    /\ last.filename = JStr(B_py)
    /\ last.io = "ok"
    /\ B_py \notin DOMAIN last.before
    /\ last.ret = None
    /\ B_py \notin DOMAIN fs

-----------------------------------------------------------------------------
(* utils/session_manager.py.  Here st.session_state is the mapping of the   *)
(* keys it holds, so that a key can be absent.                              *)

state_defaults ==
    [k \in DOMAIN SessionDefaults \ {"confirm_delete_pending"} |-> SessionDefaults[k]]

\* initialize_session_state that assigns every default
initialize_session_state_Resets(ss) ==
    [k \in DOMAIN ss \cup DOMAIN state_defaults |->
        IF k \in DOMAIN state_defaults THEN state_defaults[k] ELSE ss[k]]

initialize_session_state(ss) ==
    [k \in DOMAIN ss \cup DOMAIN state_defaults |->
        IF k \notin DOMAIN ss THEN state_defaults[k] ELSE ss[k]]

\* a session in use: a conversation under way, a.py open with unsaved text,
\* a preview recorded, a deletion awaiting its confirmation
SessionInUse ==
    [messages |-> <<[role |-> "user", content |-> Text("do it")]>>,
     selected_file |-> JStr(A_py),
     file_content_on_load |-> X,
     preview_process |-> Popen(1),
     preview_port |-> PyInt(StartPort),
     preview_url |-> JStr(<<"http://localhost:", "8502">>),
     preview_file |-> JStr(A_py),
     editor_unsaved_content |-> Y,
     last_saved_content |-> X,
     ai_is_thinking |-> TRUE,
     confirm_delete_pending |-> True]

\* the keys of the session whose absence is tried
SessionKeys ==
    {"messages", "selected_file", "preview_process", "preview_url",
     "editor_unsaved_content", "ai_is_thinking", "confirm_delete_pending"}

\* the number of runs of the script
MaxSessionCalls == 2

SessionInit ==
    /\ fs = EmptyFs
    /\ \E full \in {SessionInUse,
                     [k \in DOMAIN state_defaults \cup {"confirm_delete_pending"} |->
                        IF k = "confirm_delete_pending" THEN True
                        ELSE state_defaults[k]]},
          absent \in SUBSET SessionKeys :
        session_state = [k \in DOMAIN full \ absent |-> full[k]]
    /\ procs = <<>>
    /\ client = NoClient
    /\ last = NoCall
    /\ calls = 0

\* app.py:46, at the start of every run of the script
CallInitialize ==
    /\ calls < MaxSessionCalls
    /\ session_state' = initialize_session_state(session_state)
    /\ last' = [op |-> "initialize_session_state", before |-> session_state]
    /\ calls' = calls + 1
    /\ UNCHANGED <<fs, procs, client>>

SessionNext == CallInitialize

SpecSession == SessionInit /\ [][SessionNext]_vars

\* C40: initialize_session_state leaves every key that is present with the
\* value it has, gives each absent key of its defaults the default, adds no
\* other key, and applied again changes nothing.
C40_InitializeSetsOnlyAbsentKeys ==
    last.op = "initialize_session_state"
        => /\ DOMAIN session_state = DOMAIN last.before \cup DOMAIN state_defaults
           /\ \A k \in DOMAIN last.before : session_state[k] = last.before[k]
           /\ \A k \in DOMAIN state_defaults \ DOMAIN last.before :
                session_state[k] = state_defaults[k]
           /\ initialize_session_state(session_state) = session_state

\* the script has run on a session with a conversation under way and a
\* preview recorded but no selected_file key: the key has its default, the
\* history, the flag and the preview handle are as they were
C40_Witness ==
    /\ last.op = "initialize_session_state"
    /\ "selected_file" \notin DOMAIN last.before
    /\ "confirm_delete_pending" \notin DOMAIN session_state
    /\ session_state.selected_file = None
    /\ session_state.messages = SessionInUse.messages
    /\ session_state.ai_is_thinking
    /\ session_state.preview_process = Popen(1)
    /\ session_state.preview_file = JStr(A_py)

\* the statuses of a create_update that failed
FailedCreateStatuses ==
    {Text("failed: save error"), Text("failed: invalid filename"),
     Text("failed: missing parameters")}

\* C37: a create_update command that gets status `failed: save error`,
\* `failed: invalid filename` or `failed: missing parameters` leaves every
\* file of the workspace with the content it had, and creates none.
C37_FailedCreateLeavesWorkspace ==
    (/\ ExecCall
     /\ Len(last.commands) = 1
     /\ last.commands[1].t = "dict"
     /\ last.commands[1].action = CreateUpdate
     /\ Len(last.executed) = 1
     /\ last.executed[1].status \in FailedCreateStatuses)
        => fs = last.before

-----------------------------------------------------------------------------
(* The transcript handed to the backend                                     *)

\* the file listing as the system instruction carries it
FileListText(files) == IF files = <<>> THEN <<"None">> ELSE JoinNames(files)

\* the template with the listing in the place of its file_list field
Substituted(template, files) ==
    SubSeq(template, 1, Len(template) - 3) \o FileListText(files)

\* the turn of one history entry
TurnOf(msg) ==
    [role |-> IF msg.role = "assistant" THEN "model" ELSE "user",
     text |-> IF msg.content.t = "list" THEN Dumps(msg.content) ELSE msg.content.v]

\* the history of a call
HistoryOf(l) ==
    IF l.op = "ai_turn" THEN l.before_ss.messages ELSE session_state.messages

\* C32: with a configured backend client, ask_gemini_ai with the system
\* prompt template of settings.py calls the backend, with a transcript whose
\* first turn is the system instruction with the workspace listing in the
\* place of the file_list field (None for an empty workspace), whose second
\* turn is the canned acknowledgment, and whose remaining turns are the
\* history entries in order, assistant as model, command lists as JSON text.
C32_BackendGetsTranscript ==
    (/\ last.op \in {"ask_gemini_ai", "ai_turn"}
     /\ last.model
     /\ last.template = GEMINI_SYSTEM_PROMPT_TEMPLATE)
        => /\ last.called
           /\ Len(last.sent) = 2 + Len(HistoryOf(last))
           /\ last.sent[1].role = "user"
           /\ last.sent[1].text = Substituted(last.template, last.files)
           /\ last.sent[2].role = "model"
           /\ OneChatCommand(last.sent[2].text)
           /\ \A i \in 1..Len(HistoryOf(last)) :
                last.sent[2 + i] = TurnOf(HistoryOf(last)[i])

-----------------------------------------------------------------------------
(* The conversation history                                                 *)

\* C31: the conversation history is append-only and ordered: every step (a
\* user prompt, a call of the model, an AI turn with its commands) leaves the
\* entries that messages holds where they are and as they are, and at most
\* appends entries after them.
C31_HistoryAppendOnly ==
    [][StartsWith(session_state'.messages, session_state.messages)]_vars

\* a second instruction has been appended after an instruction and the
\* outcomes that answered it
C31_Witness ==
    /\ last.op = "user_prompt"
    /\ Len(session_state.messages) = 3
    /\ session_state.messages[1].role = "user"
    /\ session_state.messages[2].role = "assistant"
    /\ session_state.messages[2].content.t = "list"

\* C35: whenever ai_is_thinking is true the history is not empty and its last
\* entry has role user, so the guard reading messages[-1] does not fail;
\* every assistant entry stands directly after a user entry; and whenever
\* the last entry has role assistant, ai_is_thinking is false.
C35_ThinkingMeansLastIsUser ==
    LET messages == session_state.messages
    IN  /\ session_state.ai_is_thinking
            => (messages # <<>> /\ messages[Len(messages)].role = "user")
        /\ \A i \in 1..Len(messages) :
                messages[i].role = "assistant"
                    => (i > 1 /\ messages[i - 1].role = "user")
        /\ (messages # <<>> /\ messages[Len(messages)].role = "assistant")
            => ~session_state.ai_is_thinking

\* an AI turn has appended its outcomes after the instruction and cleared
\* the flag that the chat input had set
C35_Witness ==
    /\ last.op = "ai_turn"
    /\ last.before_ss.ai_is_thinking
    /\ ~session_state.ai_is_thinking
    /\ Len(session_state.messages) = 2
    /\ session_state.messages[2].role = "assistant"

-----------------------------------------------------------------------------
(* app.py: the chat loop run after run.  last carries the system prompt     *)
(* template of the run and the number of calls of the backend made for the  *)
(* instruction that is waiting.                                             *)

\* the number of instructions typed in one run
MaxPrompts == 2

\* the count of backend calls stops here
MaxModelCalls == 2

ChatInit ==
    /\ fs = PreviewFs
    /\ session_state = SessionDefaults
    /\ procs = <<>>
    /\ client \in {[key |-> k, model |-> FALSE] : k \in BOOLEAN}
    /\ \E template \in {GEMINI_SYSTEM_PROMPT_TEMPLATE, FileListTemplate} :
            last = [op |-> "none", template |-> template, model_calls |-> 0]
    /\ calls = 0

\* the chat input: the flag, the user entry, st.rerun().  An instruction
\* is typed when none is waiting: the run that answers one starts with the
\* st.rerun() of the chat input, before the user can type again.
ChatPrompt ==
    /\ calls < MaxPrompts
    /\ ~session_state.ai_is_thinking
    /\ session_state' = [session_state EXCEPT
            !.ai_is_thinking = TRUE,
            !.messages = Append(@, [role |-> "user", content |-> Text("do it")])]
    /\ last' = [op |-> "user_prompt", template |-> last.template, model_calls |-> 0]
    /\ calls' = calls + 1
    /\ UNCHANGED <<fs, procs, client>>

\* a run of the script that finds the flag set after a user entry: the AI
\* turn, which ends with the assistant entry, the flag cleared and
\* st.rerun(), or with the exception that left ask_gemini_ai
ChatRerun ==
    /\ session_state.ai_is_thinking
    /\ session_state.messages # <<>>
    /\ session_state.messages[Len(session_state.messages)].role = "user"
    /\ \E construct \in {"ok", "error"}, backend \in Backends :
        \E a \in {ask_gemini_ai(client, last.template,
                                get_workspace_python_files(fs), construct, backend)} :
            \E r \in {IF a.raised
                      THEN [ret |-> <<>>, fs |-> fs, ss |-> session_state]
                      ELSE parse_and_execute_ai_commands(fs, session_state, a.ret,
                                                         <<"ok">>)} :
                /\ client' = a.client
                /\ fs' = r.fs
                /\ session_state' =
                        IF a.raised THEN session_state
                        ELSE [r.ss EXCEPT
                                !.messages = Append(@, [role |-> "assistant",
                                                        content |-> List(r.ret)]),
                                !.ai_is_thinking = FALSE]
                /\ last' = [op |-> "ai_turn", template |-> last.template,
                            model_calls |->
                                IF a.called /\ last.model_calls < MaxModelCalls
                                THEN last.model_calls + 1 ELSE last.model_calls,
                            backend |-> backend, raised |-> a.raised,
                            executed |-> r.ret]
    /\ UNCHANGED <<procs, calls>>

ChatNext == ChatPrompt \/ ChatRerun

\* the script is run again after every st.rerun() and every interaction
SpecChat == ChatInit /\ [][ChatNext]_vars /\ WF_vars(ChatRerun)

\* the entries are instruction and outcomes in turn
Answered(messages) ==
    /\ Len(messages) % 2 = 0
    /\ \A i \in 1..Len(messages) :
            messages[i].role = IF i % 2 = 1 THEN "user" ELSE "assistant"

-----------------------------------------------------------------------------
(* app.py: the editor column with the file selector, the AI commands and    *)
(* the confirmed deletion                                                   *)

\* what the AI asks for while a file is open in the editor
EditorBatches ==
    {<<Dict(CreateUpdate, JStr(A_py), JStr(Y), Absent)>>,
     <<Dict(CreateUpdate, JStr(Dot_a_py), JStr(Y), Absent)>>,
     <<Dict(Delete, JStr(B_py), Absent, Absent)>>,
     <<Dict(Delete, JStr(Dot_a_py), Absent, Absent)>>}

EditorInit ==
    /\ fs = PreviewFs
    /\ session_state \in {SessionDefaults, Editing(A_py, X)}
    /\ procs = <<>>
    /\ client = NoClient
    /\ last = NoCall
    /\ calls = 0

\* the text of the editor changed: st_ace returns it and the script keeps it
EditorType ==
    /\ calls < MaxCalls
    /\ Truthy(session_state.selected_file)
    /\ \E editor_current_text \in {X, Y} :
        /\ editor_current_text # session_state.editor_unsaved_content
        /\ session_state' = [session_state EXCEPT
                !.editor_unsaved_content = editor_current_text]
    /\ last' = [op |-> "type"]
    /\ calls' = calls + 1
    /\ UNCHANGED <<fs, procs, client>>

\* the Save Changes button, enabled while the text differs from the saved one
EditorSave ==
    /\ calls < MaxCalls
    /\ Truthy(session_state.selected_file)
    /\ session_state.editor_unsaved_content # session_state.last_saved_content
    /\ \E io \in {"ok", "open_error", "write_error"} :
        \E r \in {save_file(fs, session_state.selected_file,
                            JStr(session_state.editor_unsaved_content), io)} :
            /\ fs' = r.fs
            /\ session_state' =
                    IF r.ret
                    THEN [session_state EXCEPT
                            !.file_content_on_load = session_state.editor_unsaved_content,
                            !.last_saved_content = session_state.editor_unsaved_content]
                    ELSE session_state
            /\ last' = [op |-> "save", ret |-> r.ret, io |-> io]
    /\ calls' = calls + 1
    /\ UNCHANGED <<procs, client>>

EditorBatch == RunBatchOf(EditorBatches, MaxCalls)

EditorNext ==
    \/ SelectFile
    \/ EditorType
    \/ EditorSave
    \/ ClickDelete
    \/ ConfirmDelete
    \/ CancelDelete
    \/ EditorBatch

SpecEditor == EditorInit /\ [][EditorNext]_vars

\* C38: after any sequence of file selection, editor Save, AI command
\* batches and confirmed manual deletion, whenever selected_file is set it
\* names a file that exists in the workspace and last_saved_content is what
\* that file holds on disk.
C38_SelectionMatchesDisk ==
    Truthy(session_state.selected_file)
        => /\ IsFile(fs, PathJoin(session_state.selected_file.v))
           /\ session_state.last_saved_content =
                TextRead(fs[PathJoin(session_state.selected_file.v)].data)

\* C39: a file is deleted through the manual path only after Delete File was
\* clicked while that file was selected and the deletion was then confirmed:
\* a pending confirmation never carries over to another selection, the
\* confirmed deletion removes the selected file after a pending
\* confirmation and nothing else, and Cancel removes the pending flag and
\* leaves the workspace, the editor state and the preview state as they are.
C39_ConfirmationBelongsToSelection ==
    [][/\ (/\ Truthy(Get(session_state'.confirm_delete_pending))
           /\ Truthy(session_state'.selected_file))
            => session_state'.selected_file = session_state.selected_file
       /\ last'.op = "confirm_delete"
            => /\ Truthy(Get(session_state.confirm_delete_pending))
               /\ \A path \in DOMAIN fs :
                    path \in DOMAIN fs'
                        \/ path = PathJoin(session_state.selected_file.v)
       /\ last'.op = "cancel_delete"
            => /\ session_state'.confirm_delete_pending = Absent
               /\ fs' = fs
               /\ procs' = procs
               /\ EditorState(session_state') = EditorState(session_state)
               /\ PreviewFields(session_state') = PreviewFields(session_state)
      ]_vars

====
